---- MODULE Spec2Model ----
(***************************************************************************)
(* OptiPick: constraint-checked greedy allocation of orders to agents, its *)
(* callers (priority allocation, validation of a solution), and detection  *)
(* and resolution of collisions between the agents' routes.                *)
(* Model of src/src/models.py, src/src/constraints.py,                     *)
(* src/src/allocation.py and the CollisionDetector of src/src/routing.py.  *)
(* Weights, volumes and costs are integers; a                              *)
(* speed is kept in tenths of m/s; a clock string "HH:MM" is the sequence  *)
(* of its character codes with ':' coded as 10 (it sorts after the digits, *)
(* as in ASCII).                                                           *)
(***************************************************************************)
EXTENDS Integers, Sequences, FiniteSets, TLC

VARIABLES
    agents,                 \* the agent list given to allocate (agent ids)
    orders,                 \* the order list given to allocate (order ids)
    current_load_weight,    \* Agent.current_load_weight, per agent
    current_load_volume,    \* Agent.current_load_volume, per agent
    current_products,       \* Agent.current_products, per agent
    assigned_orders,        \* Agent.assigned_orders, per agent
    assigned_human,         \* Cart.assigned_human, per cart
    assigned_cart,          \* Human.assigned_cart, per human
    assigned_agent,         \* Order.assigned_agent, per order
    pc,                     \* position of the caller: idle, loop, done
    sorted_orders,          \* local of allocate
    sorted_agents,          \* local of allocate
    k,                      \* index of the next order of sorted_orders
    successful_assignments, \* local of allocate
    failed_assignments,     \* local of allocate
    result,                 \* value returned by the last completed pass
    prev_result,            \* value returned by the pass before it
    runs,                   \* completed passes
    chk,                    \* inputs and outputs of the checker harness
    coll,                   \* routes and locals of the CollisionDetector calls
    caller                  \* locals of a caller of allocate

vars == <<agents, orders, current_load_weight, current_load_volume,
          current_products, assigned_orders, assigned_human, assigned_cart,
          assigned_agent, pc, sorted_orders, sorted_agents, k,
          successful_assignments, failed_assignments, result, prev_result,
          runs, chk, coll, caller>>

allocVars == <<agents, orders, current_load_weight, current_load_volume,
               current_products, assigned_orders, assigned_human,
               assigned_cart, assigned_agent, pc, sorted_orders,
               sorted_agents, k, successful_assignments, failed_assignments,
               result, prev_result, runs>>

\* ------------------------------------------------------------------ bounds
MaxAgents == 2
MaxOrders == 2
MaxRuns == 2
MaxProducts == 3
MaxRoutes == 2

None == "None"

\* --------------------------------------------------------------- utilities
RECURSIVE SeqSum(_)
SeqSum(s) == IF s = <<>> THEN 0 ELSE Head(s) + SeqSum(Tail(s))

RECURSIVE Flatten(_)
Flatten(ss) == IF ss = <<>> THEN <<>> ELSE Head(ss) \o Flatten(Tail(ss))

Range(s) == {s[i] : i \in 1..Len(s)}

\* the sequence f with every element computed once, as a Python list is
List(f) == f \o <<>>

Abs(n) == IF n < 0 THEN -n ELSE n

Min(S) == CHOOSE x \in S : \A y \in S : x <= y

\* the sequences of distinct elements of S of length 0..n
DistinctSeqs(S, n) ==
    {s \in UNION {[1..m -> S] : m \in 0..n} :
        \A i, j \in 1..Len(s) : i # j => s[i] # s[j]}

\* Python's str and tuple comparison: lexicographic on the codes
RECURSIVE StrLess(_, _)
StrLess(s, t) ==
    IF t = <<>> THEN FALSE
    ELSE IF s = <<>> THEN TRUE
    ELSE IF Head(s) # Head(t) THEN Head(s) < Head(t)
    ELSE StrLess(Tail(s), Tail(t))

\* Python's sorted(s, key=...): a stable insertion sort; key is a function
\* from the elements to their (tuple) keys
RECURSIVE InsertStable(_, _, _)
InsertStable(x, s, key) ==
    IF s = <<>> THEN <<x>>
    ELSE IF StrLess(key[x], key[Head(s)]) THEN <<x>> \o s
    ELSE <<Head(s)>> \o InsertStable(x, Tail(s), key)

RECURSIVE sorted(_, _)
sorted(s, key) ==
    IF s = <<>> THEN <<>>
    ELSE InsertStable(s[Len(s)], sorted(SubSeq(s, 1, Len(s) - 1), key), key)

Colon == 10

RECURSIVE ParseInt(_)
ParseInt(d) == IF d = <<>> THEN 0 ELSE 10 * ParseInt(SubSeq(d, 1, Len(d) - 1)) + d[Len(d)]

\* ConstraintChecker._time_to_minutes: "HH:MM" -> minutes since midnight
time_to_minutes(time_str) ==
    LET c == CHOOSE i \in 1..Len(time_str) : time_str[i] = Colon
        h == ParseInt(SubSeq(time_str, 1, c - 1))
        m == ParseInt(SubSeq(time_str, c + 1, Len(time_str)))
    IN  h * 60 + m

\* ------------------------------------------------------------ the warehouse
\* Warehouse(10, 8, Location(0, 0), zones) of the tests
entry_point == <<0, 0>>

zones == << [id |-> "A", coords |-> {<<1, 1>>, <<2, 1>>}],
            [id |-> "C", coords |-> {<<8, 1>>}] >>

\* Location.distance_to
distance_to(l1, l2) == Abs(l1[1] - l2[1]) + Abs(l1[2] - l2[2])

\* Warehouse.get_zone_at: the first zone that contains the location
get_zone_at(location) ==
    LET hits == {i \in 1..Len(zones) : location \in zones[i].coords}
    IN  IF hits = {} THEN None ELSE zones[Min(hits)].id

\* ------------------------------------------------------------- the products
ProductIds == {"P1", "P2", "P3", "P4"}

Products ==
    [p \in ProductIds |->
        CASE p = "P1" -> [id |-> "P1", weight |-> 25, volume |-> 5,
                          location |-> <<8, 1>>, fragile |-> TRUE,
                          incompatible_with |-> {}]
          [] p = "P2" -> [id |-> "P2", weight |-> 5, volume |-> 10,
                          location |-> <<1, 1>>, fragile |-> FALSE,
                          incompatible_with |-> {}]
          [] p = "P3" -> [id |-> "P3", weight |-> 3, volume |-> 5,
                          location |-> <<1, 1>>, fragile |-> FALSE,
                          incompatible_with |-> {"P2"}]
          [] p = "P4" -> [id |-> "P4", weight |-> 5, volume |-> 20,
                          location |-> <<2, 1>>, fragile |-> FALSE,
                          incompatible_with |-> {}]]

\* mutant of is_compatible_with: only the receiver's own list is read
is_compatible_with_one_way(self, other) ==
    other.id \notin self.incompatible_with

\* Product.is_compatible_with
is_compatible_with(self, other) ==
    /\ other.id \notin self.incompatible_with
    /\ self.id \notin other.incompatible_with

\* --------------------------------------------------------------- the agents
\* dict.get(key, default)
Get(d, key, default) == IF key \in DOMAIN d THEN d[key] ELSE default

AgentIds == {"R1", "R2", "H1", "C1"}

\* Robot(...), Human(...), Cart(...) as the tests construct them; speed is in
\* tenths of m/s
Agents ==
    [a \in AgentIds |->
        CASE a = "R1" -> [id |-> "R1", type |-> "robot", capacity_weight |-> 20,
                          capacity_volume |-> 30, speed |-> 20, cost_per_hour |-> 5,
                          restrictions |-> [no_fragile |-> TRUE]]
          [] a = "R2" -> [id |-> "R2", type |-> "robot", capacity_weight |-> 5,
                          capacity_volume |-> 10, speed |-> 20, cost_per_hour |-> 4,
                          restrictions |-> [no_fragile |-> TRUE, no_zones |-> {"C"},
                                            max_item_weight |-> 10]]
          [] a = "H1" -> [id |-> "H1", type |-> "human", capacity_weight |-> 35,
                          capacity_volume |-> 50, speed |-> 15, cost_per_hour |-> 25,
                          restrictions |-> <<>>]
          [] a = "C1" -> [id |-> "C1", type |-> "cart", capacity_weight |-> 50,
                          capacity_volume |-> 80, speed |-> 12, cost_per_hour |-> 3,
                          restrictions |-> [requires_human |-> TRUE]]]

Robots == {a \in AgentIds : Agents[a].type = "robot"}
Humans == {a \in AgentIds : Agents[a].type = "human"}
Carts  == {a \in AgentIds : Agents[a].type = "cart"}

\* Agent.can_access_zone
can_access_zone(a, zone) == zone \notin Get(Agents[a].restrictions, "no_zones", {})

\* Cart.is_operational
is_operational(cart) == assigned_human[cart] # None

\* --------------------------------------------------------------- the orders
\* "HH:MM"
Clock(h1, h2, m1, m2) == <<h1, h2, Colon, m1, m2>>

\* OrderItem(product_id, quantity, product); product is None for an id the
\* catalogue does not hold (loader.py: products_dict.get(product_id))
OrderItem(product_id, quantity) ==
    [product_id |-> product_id, quantity |-> quantity,
     product |-> IF product_id \in ProductIds THEN product_id ELSE None]

OrderIds == {"O1", "O2", "O3", "O4", "O5", "O6"}

OrderData ==
    [o \in OrderIds |->
        CASE o = "O1" -> [id |-> "O1", received_time |-> Clock(0, 8, 0, 0),
                          deadline |-> Clock(1, 0, 0, 0), priority |-> "standard",
                          items |-> <<OrderItem("P1", 1)>>]
          [] o = "O2" -> [id |-> "O2", received_time |-> Clock(0, 8, 0, 0),
                          deadline |-> Clock(1, 0, 0, 0), priority |-> "standard",
                          items |-> <<OrderItem("P2", 1)>>]
          [] o = "O3" -> [id |-> "O3", received_time |-> Clock(1, 1, 0, 0),
                          deadline |-> Clock(1, 2, 0, 0), priority |-> "standard",
                          items |-> <<OrderItem("P3", 1), OrderItem("P9", 1)>>]
          [] o = "O4" -> [id |-> "O4", received_time |-> Clock(0, 8, 0, 0),
                          deadline |-> Clock(1, 0, 0, 0), priority |-> "express",
                          items |-> <<OrderItem("P3", 1)>>]
          [] o = "O5" -> [id |-> "O5", received_time |-> Clock(0, 9, 0, 0),
                          deadline |-> Clock(0, 0, 0, 0), priority |-> "standard",
                          items |-> <<OrderItem("P2", 1), OrderItem("P3", 1)>>]
          [] o = "O6" -> [id |-> "O6", received_time |-> Clock(0, 8, 0, 0),
                          deadline |-> Clock(0, 9, 3, 0), priority |-> "express",
                          items |-> <<OrderItem("P4", 2)>>]]

\* the products of the items that have one, one entry per item
ItemProducts(items) ==
    LET withProduct == SelectSeq(items, LAMBDA it : it.product # None)
    IN  [i \in 1..Len(withProduct) |-> Products[withProduct[i].product]]

\* Order.calculate_totals (loader.py calls it on every order it builds)
calculate_totals(items) ==
    LET withProduct == SelectSeq(items, LAMBDA it : it.product # None)
    IN  [total_weight |-> SeqSum([i \in 1..Len(withProduct) |->
                            Products[withProduct[i].product].weight * withProduct[i].quantity]),
         total_volume |-> SeqSum([i \in 1..Len(withProduct) |->
                            Products[withProduct[i].product].volume * withProduct[i].quantity])]

total_weight(o) == calculate_totals(OrderData[o].items).total_weight
total_volume(o) == calculate_totals(OrderData[o].items).total_volume

\* Order.time_to_deadline: the minutes from received_time to deadline
time_to_deadline(o) ==
    LET received == OrderData[o].received_time
        deadline == OrderData[o].deadline
        rc == CHOOSE i \in 1..Len(received) : received[i] = Colon
        dc == CHOOSE i \in 1..Len(deadline) : deadline[i] = Colon
        received_minutes == ParseInt(SubSeq(received, 1, rc - 1)) * 60
                                + ParseInt(SubSeq(received, rc + 1, Len(received)))
        deadline_minutes == ParseInt(SubSeq(deadline, 1, dc - 1)) * 60
                                + ParseInt(SubSeq(deadline, dc + 1, Len(deadline)))
    IN  deadline_minutes - received_minutes

\* Order.get_unique_locations
get_unique_locations(o) ==
    {Products[it.product].location :
        it \in {x \in Range(OrderData[o].items) : x.product # None}}

\* check_deadline_feasible: the sum of the distances from the entry point
RECURSIVE total_distance(_)
total_distance(locations) ==
    IF locations = {} THEN 0
    ELSE LET loc == CHOOSE l \in locations : TRUE
         IN  distance_to(entry_point, loc) + total_distance(locations \ {loc})

\* ---------------------------------------------------- the ConstraintChecker
OK == <<"OK">>

\* mutant of check_capacity: a sum equal to the capacity is refused
check_capacity_strict(a, o) ==
    LET tw == current_load_weight[a] + total_weight(o)
        tv == current_load_volume[a] + total_volume(o)
    IN  IF tw >= Agents[a].capacity_weight
            THEN [ok |-> FALSE, msg |-> <<"capacity weight">>]
        ELSE IF tv >= Agents[a].capacity_volume
            THEN [ok |-> FALSE, msg |-> <<"capacity volume">>]
        ELSE [ok |-> TRUE, msg |-> OK]

\* mutant of check_capacity: the load already carried is left out
check_capacity_ignoring_load(a, o) ==
    IF total_weight(o) > Agents[a].capacity_weight
        THEN [ok |-> FALSE, msg |-> <<"capacity weight">>]
    ELSE IF total_volume(o) > Agents[a].capacity_volume
        THEN [ok |-> FALSE, msg |-> <<"capacity volume">>]
    ELSE [ok |-> TRUE, msg |-> OK]

\* ConstraintChecker.check_capacity
check_capacity(a, o) ==
    LET tw == current_load_weight[a] + total_weight(o)
        tv == current_load_volume[a] + total_volume(o)
    IN  IF tw > Agents[a].capacity_weight
            THEN [ok |-> FALSE, msg |-> <<"capacity weight">>]
        ELSE IF tv > Agents[a].capacity_volume
            THEN [ok |-> FALSE, msg |-> <<"capacity volume">>]
        ELSE [ok |-> TRUE, msg |-> OK]

\* ConstraintChecker.check_product_compatibility: the first incompatible
\* pair in scan order decides the message
check_product_compatibility(products) ==
    LET bad == {<<i, j>> \in (1..Len(products)) \X (1..Len(products)) :
                   i < j /\ ~is_compatible_with(products[i], products[j])}
    IN  IF bad = {} THEN [ok |-> TRUE, msg |-> OK]
        ELSE LET first == CHOOSE b \in bad :
                              \A c \in bad : b[1] < c[1] \/ (b[1] = c[1] /\ b[2] <= c[2])
             IN  [ok |-> FALSE,
                  msg |-> <<"incompatible", products[first[1]].id, products[first[2]].id>>]

\* ConstraintChecker.check_order_compatibility
check_order_compatibility(o) ==
    check_product_compatibility(ItemProducts(OrderData[o].items))

\* ConstraintChecker.check_agent_load_compatibility
check_agent_load_compatibility(a) ==
    check_product_compatibility(current_products[a])

\* mutant of check_robot_restrictions: the fragile test is missing
check_robot_restrictions_no_fragile_test(robot, o) ==
    LET prods == ItemProducts(OrderData[o].items)
        r == Agents[robot].restrictions
        badZone == {i \in 1..Len(prods) :
                       ~can_access_zone(robot, get_zone_at(prods[i].location))}
        heavy == {i \in 1..Len(prods) :
                     "max_item_weight" \in DOMAIN r /\ prods[i].weight > r.max_item_weight}
    IN  IF Agents[robot].type # "robot" THEN [ok |-> TRUE, msg |-> OK]
        ELSE IF badZone # {}
            THEN [ok |-> FALSE, msg |-> <<"zone", prods[Min(badZone)].id>>]
        ELSE IF heavy # {}
            THEN [ok |-> FALSE, msg |-> <<"heavy", prods[Min(heavy)].id>>]
        ELSE [ok |-> TRUE, msg |-> OK]

\* ConstraintChecker.check_robot_restrictions: zones, then fragile items,
\* then the unit weight; the first failing test returns
check_robot_restrictions(robot, o) ==
    LET prods == ItemProducts(OrderData[o].items)
        r == Agents[robot].restrictions
        badZone == {i \in 1..Len(prods) :
                       ~can_access_zone(robot, get_zone_at(prods[i].location))}
        fragile == {i \in 1..Len(prods) : prods[i].fragile}
        heavy == {i \in 1..Len(prods) :
                     "max_item_weight" \in DOMAIN r /\ prods[i].weight > r.max_item_weight}
    IN  IF Agents[robot].type # "robot" THEN [ok |-> TRUE, msg |-> OK]
        ELSE IF badZone # {}
            THEN [ok |-> FALSE, msg |-> <<"zone", prods[Min(badZone)].id>>]
        ELSE IF Get(r, "no_fragile", FALSE) /\ fragile # {}
            THEN [ok |-> FALSE, msg |-> <<"fragile", prods[Min(fragile)].id>>]
        ELSE IF heavy # {}
            THEN [ok |-> FALSE, msg |-> <<"heavy", prods[Min(heavy)].id>>]
        ELSE [ok |-> TRUE, msg |-> OK]

\* mutant of check_cart_assignment: the pairing is not looked at
check_cart_assignment_always_ok(cart) == [ok |-> TRUE, msg |-> OK]

\* ConstraintChecker.check_cart_assignment
check_cart_assignment(cart) ==
    IF Agents[cart].type # "cart" THEN [ok |-> TRUE, msg |-> OK]
    ELSE IF ~is_operational(cart) THEN [ok |-> FALSE, msg |-> <<"needs human">>]
    ELSE [ok |-> TRUE, msg |-> OK]

\* ConstraintChecker.check_deadline_feasible with current_time_minutes = 0:
\* (total_distance / speed) / 60 + 0.5 * len(items) > available_time,
\* multiplied by 6 * speed (speed in tenths) to stay in the integers
check_deadline_feasible(a, o) ==
    LET available_time == time_to_minutes(OrderData[o].deadline)
        locations == get_unique_locations(o)
        s == Agents[a].speed
    IN  IF locations = {} THEN [ok |-> TRUE, msg |-> OK]
        ELSE IF total_distance(locations) + 3 * s * Len(OrderData[o].items)
                    > 6 * s * available_time
            THEN [ok |-> FALSE, msg |-> <<"deadline">>]
        ELSE [ok |-> TRUE, msg |-> OK]

\* one entry of the error list: "[<constraint>] <msg>"
Err(constraint, r) == IF r.ok THEN <<>> ELSE << <<constraint>> \o r.msg >>

\* mutant of can_assign_order: the checks stop at the first violation
can_assign_order_first_only(a, o) ==
    LET errors ==
            Err("C1", check_capacity(a, o))
         \o Err("C2", check_order_compatibility(o))
         \o (IF Agents[a].type = "robot"
                THEN Err("C3", check_robot_restrictions(a, o)) ELSE <<>>)
         \o (IF Agents[a].type = "cart"
                THEN Err("C4", check_cart_assignment(a)) ELSE <<>>)
         \o Err("C5", check_deadline_feasible(a, o))
    IN  [ok |-> Len(errors) = 0,
         errors |-> IF errors = <<>> THEN <<>> ELSE <<Head(errors)>>]

\* ConstraintChecker.can_assign_order
can_assign_order(a, o) ==
    LET errors ==
            Err("C1", check_capacity(a, o))
         \o Err("C2", check_order_compatibility(o))
         \o (IF Agents[a].type = "robot"
                THEN Err("C3", check_robot_restrictions(a, o)) ELSE <<>>)
         \o (IF Agents[a].type = "cart"
                THEN Err("C4", check_cart_assignment(a)) ELSE <<>>)
         \o Err("C5", check_deadline_feasible(a, o))
    IN  [ok |-> Len(errors) = 0, errors |-> errors]

\* ------------------------------------------------------ GreedyAllocation
\* mutant of reset_load: the weight counter is not cleared
reset_load_keeping_weight(a) ==
    [current_load_weight |-> current_load_weight[a], current_load_volume |-> 0,
     current_products |-> <<>>, assigned_orders |-> <<>>]

\* Agent.reset_load: the four per-pass fields of an agent after the reset
reset_load(a) ==
    [current_load_weight |-> 0, current_load_volume |-> 0,
     current_products |-> <<>>, assigned_orders |-> <<>>]

\* mutant of order_sort_key: the priority is left out of the key
order_sort_key_deadline_only(o) == OrderData[o].deadline

\* mutant of order_sort_key: the remaining time replaces the deadline
order_sort_key_time_to_deadline(o) ==
    <<IF OrderData[o].priority = "express" THEN 0 ELSE 1, time_to_deadline(o)>>

\* allocate: key=lambda o: (0 if o.priority == 'express' else 1, o.deadline)
order_sort_key(o) ==
    <<IF OrderData[o].priority = "express" THEN 0 ELSE 1>> \o OrderData[o].deadline

\* mutant of agent_priority: carts stand before humans
agent_priority_cart_before_human(a) ==
    CASE Agents[a].type = "robot" -> 1
      [] Agents[a].type = "cart" -> 2
      [] Agents[a].type = "human" -> 3
      [] OTHER -> 4

\* allocate: agent_priority = {Robot: 1, Human: 2, Cart: 3};
\* key=lambda a: (agent_priority.get(type(a), 4), a.cost_per_hour)
agent_priority(a) ==
    CASE Agents[a].type = "robot" -> 1
      [] Agents[a].type = "human" -> 2
      [] Agents[a].type = "cart" -> 3
      [] OTHER -> 4

agent_sort_key(a) == <<agent_priority(a), Agents[a].cost_per_hour>>

\* allocate: the products one commit appends to agent.current_products,
\* item by item, quantity copies of each item that has a product
RECURSIVE Repeat(_, _)
Repeat(x, n) == IF n <= 0 THEN <<>> ELSE <<x>> \o Repeat(x, n - 1)

\* mutant of loaded_products: one copy per item, whatever the quantity
loaded_products_once(o) ==
    LET items == OrderData[o].items
    IN  Flatten([i \in 1..Len(items) |->
            IF items[i].product # None
                THEN <<Products[items[i].product]>> ELSE <<>>])

loaded_products(o) ==
    LET items == OrderData[o].items
    IN  Flatten([i \in 1..Len(items) |->
            IF items[i].product # None
                THEN Repeat(Products[items[i].product], items[i].quantity)
                ELSE <<>>])

\* mutant of all_errors: only the first agent's errors are kept
all_errors_first_only(order) ==
    [i \in 1..(IF sorted_agents = <<>> THEN 0 ELSE 1) |->
        [agent_id |-> sorted_agents[i],
         errors |-> can_assign_order(sorted_agents[i], order).errors]]

\* allocate: the reasons recorded for an order no agent can take, one entry
\* per agent of sorted_agents
all_errors(order) ==
    [i \in 1..Len(sorted_agents) |->
        [agent_id |-> sorted_agents[i],
         errors |-> can_assign_order(sorted_agents[i], order).errors]]

NoResult ==
    [successful |-> <<>>, failed |-> <<>>, total_orders |-> 0,
     assigned_orders |-> 0, failed_orders |-> 0]

\* allocate, up to the loop: reset every agent of the list, sort the orders
\* and the agents
AllocateStart ==
    /\ pc \in {"idle", "done"}
    /\ runs < MaxRuns
    /\ current_load_weight' = [a \in AgentIds |->
            IF a \in Range(agents) THEN reset_load(a).current_load_weight
            ELSE current_load_weight[a]]
    /\ current_load_volume' = [a \in AgentIds |->
            IF a \in Range(agents) THEN reset_load(a).current_load_volume
            ELSE current_load_volume[a]]
    /\ current_products' = [a \in AgentIds |->
            IF a \in Range(agents) THEN reset_load(a).current_products
            ELSE current_products[a]]
    /\ assigned_orders' = [a \in AgentIds |->
            IF a \in Range(agents) THEN reset_load(a).assigned_orders
            ELSE assigned_orders[a]]
    /\ sorted_orders' = sorted(orders, [o \in OrderIds |-> order_sort_key(o)])
    /\ sorted_agents' = sorted(agents, [a \in AgentIds |-> agent_sort_key(a)])
    /\ successful_assignments' = <<>>
    /\ failed_assignments' = <<>>
    /\ k' = 1
    /\ pc' = "loop"
    /\ prev_result' = result
    /\ UNCHANGED <<agents, orders, assigned_human, assigned_cart,
                   assigned_agent, result, runs, chk, coll, caller>>

\* allocate: one iteration of "for order in sorted_orders"
AllocateOrder ==
    /\ pc = "loop"
    /\ k <= Len(sorted_orders)
    /\ LET order == sorted_orders[k]
           feasible == {i \in 1..Len(sorted_agents) :
                           can_assign_order(sorted_agents[i], order).ok}
       IN  IF feasible # {}
           THEN LET agent == sorted_agents[Min(feasible)]
                IN  /\ assigned_orders' =
                            [assigned_orders EXCEPT ![agent] = Append(@, order)]
                    /\ current_load_weight' =
                            [current_load_weight EXCEPT ![agent] = @ + total_weight(order)]
                    /\ current_load_volume' =
                            [current_load_volume EXCEPT ![agent] = @ + total_volume(order)]
                    /\ current_products' =
                            [current_products EXCEPT ![agent] = @ \o loaded_products(order)]
                    /\ assigned_agent' = [assigned_agent EXCEPT ![order] = agent]
                    /\ successful_assignments' = Append(successful_assignments,
                            [order_id |-> order, agent_id |-> agent,
                             agent_type |-> Agents[agent].type])
                    /\ UNCHANGED failed_assignments
           ELSE /\ failed_assignments' = Append(failed_assignments,
                            [order_id |-> order, reasons |-> all_errors(order)])
                /\ UNCHANGED <<assigned_orders, current_load_weight,
                               current_load_volume, current_products,
                               assigned_agent, successful_assignments>>
    /\ k' = k + 1
    /\ UNCHANGED <<agents, orders, assigned_human, assigned_cart, pc,
                   sorted_orders, sorted_agents, result, prev_result, runs, chk, coll,
                   caller>>

\* allocate: the return statement
AllocateReturn ==
    /\ pc = "loop"
    /\ k > Len(sorted_orders)
    /\ result' = [successful |-> successful_assignments,
                  failed |-> failed_assignments,
                  total_orders |-> Len(orders),
                  assigned_orders |-> Len(successful_assignments),
                  failed_orders |-> Len(failed_assignments)]
    /\ runs' = runs + 1
    /\ pc' = "done"
    /\ UNCHANGED <<agents, orders, current_load_weight, current_load_volume,
                   current_products, assigned_orders, assigned_human,
                   assigned_cart, assigned_agent, sorted_orders, sorted_agents,
                   k, successful_assignments, failed_assignments, prev_result,
                   chk, coll, caller>>

\* The state after construction: the agents and orders that are given to
\* allocate, no load, and each cart either unpaired or given a human by the
\* caller (cart.assigned_human = human)
Init ==
    /\ agents \in DistinctSeqs(AgentIds, MaxAgents)
    /\ orders \in DistinctSeqs(OrderIds, MaxOrders)
    /\ current_load_weight = [a \in AgentIds |-> 0]
    /\ current_load_volume = [a \in AgentIds |-> 0]
    /\ current_products = [a \in AgentIds |-> <<>>]
    /\ assigned_orders = [a \in AgentIds |-> <<>>]
    /\ assigned_human \in [Carts -> Humans \cup {None}]
    /\ \A c \in Carts : c \notin Range(agents) => assigned_human[c] = None
    /\ assigned_cart = [h \in Humans |-> None]
    /\ assigned_agent = [o \in OrderIds |-> None]
    /\ pc = "idle"
    /\ sorted_orders = <<>>
    /\ sorted_agents = <<>>
    /\ k = 1
    /\ successful_assignments = <<>>
    /\ failed_assignments = <<>>
    /\ result = NoResult
    /\ prev_result = NoResult
    /\ runs = 0
    /\ chk = [phase |-> "off"]
    /\ coll = [phase |-> "off"]
    /\ caller = [kind |-> "off"]

\* ------------------------------------------------- the compatibility harness
\* products as the tests of is_compatible_with build them: an id and the
\* list of the ids it declares incompatible
TestProducts ==
    {[id |-> i, weight |-> 1, volume |-> 1, location |-> <<0, 0>>,
      fragile |-> FALSE, incompatible_with |-> inc] :
        i \in {"A", "B"}, inc \in {{}, {"A"}, {"B"}}}

PositionPermutations(n) ==
    {f \in [1..n -> 1..n] : \A i, j \in 1..n : i # j => f[i] # f[j]}

\* the loads an agent is given before check_capacity is called on it:
\* nothing, one order or two orders of the catalogue
TestLoads ==
    {[weight |-> 0, volume |-> 0]}
    \cup {[weight |-> total_weight(o), volume |-> total_volume(o)] : o \in OrderIds}
    \cup {[weight |-> total_weight(o) + total_weight(p),
           volume |-> total_volume(o) + total_volume(p)] : o, p \in OrderIds}

\* a product list and a permutation of its positions, nothing computed yet,
\* or an agent with a load and an order for check_capacity
InitCheck ==
    /\ \/ /\ \E n \in 0..MaxProducts :
                \E ps \in [1..n -> TestProducts] :
                    \E perm \in PositionPermutations(n) :
                        chk = [phase |-> "in", products |-> ps, perm |-> perm,
                               compat |-> <<>>, verdict |-> TRUE,
                               verdict_perm |-> TRUE]
          /\ current_load_weight = [a \in AgentIds |-> 0]
          /\ current_load_volume = [a \in AgentIds |-> 0]
       \/ \E a \in AgentIds, o \in OrderIds, load \in TestLoads :
            /\ chk = [phase |-> "capacity_in", agent |-> a, order |-> o,
                      load |-> load, capacity |-> [ok |-> TRUE, msg |-> OK]]
            /\ current_load_weight =
                    [x \in AgentIds |-> IF x = a THEN load.weight ELSE 0]
            /\ current_load_volume =
                    [x \in AgentIds |-> IF x = a THEN load.volume ELSE 0]
    /\ coll = [phase |-> "off"]
    /\ caller = [kind |-> "off"]
    /\ agents = <<>>
    /\ orders = <<>>
    /\ current_products = [a \in AgentIds |-> <<>>]
    /\ assigned_orders = [a \in AgentIds |-> <<>>]
    /\ assigned_human = [c \in Carts |-> None]
    /\ assigned_cart = [h \in Humans |-> None]
    /\ assigned_agent = [o \in OrderIds |-> None]
    /\ pc = "idle"
    /\ sorted_orders = <<>>
    /\ sorted_agents = <<>>
    /\ k = 1
    /\ successful_assignments = <<>>
    /\ failed_assignments = <<>>
    /\ result = NoResult
    /\ prev_result = NoResult
    /\ runs = 0

\* is_compatible_with on every ordered pair of the list, and
\* check_product_compatibility on the list and on the permuted list
CheckCompatibility ==
    /\ chk.phase = "in"
    /\ LET ps == chk.products
           permuted == [i \in 1..Len(ps) |-> ps[chk.perm[i]]]
       IN  chk' = [chk EXCEPT
                !.phase = "out",
                !.compat = [i \in 1..Len(ps) |-> [j \in 1..Len(ps) |->
                                is_compatible_with(ps[i], ps[j])]],
                !.verdict = check_product_compatibility(ps).ok,
                !.verdict_perm = check_product_compatibility(permuted).ok]
    /\ UNCHANGED <<allocVars, coll, caller>>

\* a call of check_capacity; it assigns to nothing
CheckCapacity ==
    /\ chk.phase = "capacity_in"
    /\ chk' = [chk EXCEPT !.phase = "capacity_out",
                          !.capacity = check_capacity(chk.agent, chk.order)]
    /\ UNCHANGED <<allocVars, coll, caller>>

NextCheck == CheckCompatibility \/ CheckCapacity

SpecCheck == InitCheck /\ [][NextCheck]_vars

Next == AllocateStart \/ AllocateOrder \/ AllocateReturn

Spec == Init /\ [][Next]_vars

\* ------------------------------------------- the callers of the allocator
\* PriorityAllocation.allocate: the two groups, in the order of the list
express_orders(os) == SelectSeq(os, LAMBDA o : OrderData[o].priority = "express")

standard_orders(os) == SelectSeq(os, LAMBDA o : OrderData[o].priority = "standard")

\* PriorityAllocation.allocate: the dictionary it returns
combined_result(result_express, result_standard, os) ==
    [successful |-> result_express.successful \o result_standard.successful,
     failed |-> result_express.failed \o result_standard.failed,
     total_orders |-> Len(os),
     assigned_orders |-> result_express.assigned_orders
                            + result_standard.assigned_orders,
     failed_orders |-> result_express.failed_orders
                            + result_standard.failed_orders,
     express_assigned |-> result_express.assigned_orders,
     standard_assigned |-> result_standard.assigned_orders]

NoCombinedResult == combined_result(NoResult, NoResult, <<>>)

NoValidation == [valid |-> TRUE, errors |-> <<>>]

\* ConstraintChecker.validate_solution: one C6 error per order that is in no
\* agent's assigned_orders, then the errors of can_assign_order for every
\* order of every agent, on the agents as they are
validate_solution(as, os) ==
    LET assigned == UNION {Range(assigned_orders[as[i]]) : i \in 1..Len(as)}
        missing == SelectSeq(os, LAMBDA o : o \notin assigned)
        completeness == [i \in 1..Len(missing) |-> <<"C6", missing[i]>>]
        of_order(a, o) ==
            LET agent_errors == can_assign_order(a, o).errors
            IN  [e \in 1..Len(agent_errors) |-> <<"Agent", a>> \o agent_errors[e]]
        of_agent(a) ==
            Flatten([j \in 1..Len(assigned_orders[a]) |->
                        of_order(a, assigned_orders[a][j])])
        errors == completeness \o Flatten([i \in 1..Len(as) |-> of_agent(as[i])])
    IN  [valid |-> Len(errors) = 0, errors |-> errors]

\* a caller with its agents and orders: PriorityAllocation.allocate about to
\* make its first call of greedy.allocate, on the express orders, or a
\* caller of GreedyAllocation.allocate that validates the solution after it
InitCaller ==
    /\ \E kind \in {"priority", "validate"} :
        \E os \in DistinctSeqs(OrderIds, MaxOrders) :
            /\ caller = [kind |-> kind, step |-> "first", orders |-> os,
                         result_express |-> NoResult,
                         result |-> NoCombinedResult,
                         validation |-> NoValidation]
            /\ orders = IF kind = "priority" THEN express_orders(os) ELSE os
    /\ agents \in DistinctSeqs(AgentIds, MaxAgents)
    /\ current_load_weight = [a \in AgentIds |-> 0]
    /\ current_load_volume = [a \in AgentIds |-> 0]
    /\ current_products = [a \in AgentIds |-> <<>>]
    /\ assigned_orders = [a \in AgentIds |-> <<>>]
    /\ assigned_human \in [Carts -> Humans \cup {None}]
    /\ \A c \in Carts : c \notin Range(agents) => assigned_human[c] = None
    /\ assigned_cart = [h \in Humans |-> None]
    /\ assigned_agent = [o \in OrderIds |-> None]
    /\ pc = "idle"
    /\ sorted_orders = <<>>
    /\ sorted_agents = <<>>
    /\ k = 1
    /\ successful_assignments = <<>>
    /\ failed_assignments = <<>>
    /\ result = NoResult
    /\ prev_result = NoResult
    /\ runs = 0
    /\ chk = [phase |-> "off"]
    /\ coll = [phase |-> "off"]

\* the caller's call of greedy.allocate: the first one, or the second one of
\* PriorityAllocation.allocate
CallAllocate ==
    /\ \/ caller.step = "first" /\ runs = 0
       \/ caller.step = "second" /\ runs = 1
    /\ AllocateStart

\* PriorityAllocation.allocate between its two calls: result_express is
\* kept and the standard orders are the next argument
PriorityStandard ==
    /\ caller.kind = "priority"
    /\ caller.step = "first"
    /\ pc = "done"
    /\ caller' = [caller EXCEPT !.step = "second", !.result_express = result]
    /\ orders' = standard_orders(caller.orders)
    /\ UNCHANGED <<agents, current_load_weight, current_load_volume,
                   current_products, assigned_orders, assigned_human,
                   assigned_cart, assigned_agent, pc, sorted_orders,
                   sorted_agents, k, successful_assignments,
                   failed_assignments, result, prev_result, runs, chk, coll>>

\* PriorityAllocation.allocate: the return statement
PriorityReturn ==
    /\ caller.kind = "priority"
    /\ caller.step = "second"
    /\ pc = "done"
    /\ runs = 2
    /\ caller' = [caller EXCEPT
            !.step = "returned",
            !.result = combined_result(caller.result_express, result,
                                       caller.orders)]
    /\ UNCHANGED <<allocVars, chk, coll>>

\* validate_solution(agents, orders) on the agents as allocate left them
ValidateSolution ==
    /\ caller.kind = "validate"
    /\ caller.step = "first"
    /\ pc = "done"
    /\ caller' = [caller EXCEPT
            !.step = "validated",
            !.validation = validate_solution(agents, orders)]
    /\ UNCHANGED <<allocVars, chk, coll>>

NextCaller ==
    \/ CallAllocate
    \/ AllocateOrder
    \/ AllocateReturn
    \/ PriorityStandard
    \/ PriorityReturn
    \/ ValidateSolution

SpecCaller == InitCaller /\ [][NextCaller]_vars

\* --------------------------------------------- routes of the agents
\* routing.py: the delay of one round of resolve_with_delays
START_STAGGER_SECONDS == 10

\* mutant of max_iterations: one round more
max_iterations_more == 50 + 1

\* resolve_with_delays: max_iterations = 50
max_iterations == 50

\* CollisionDetector.__init__: time_step = 1.0, in seconds
time_step == 1

\* detect_collisions: int(c['time'] / 5), the width of a deduplication window
dedup_window == 5

\* 'location': None of an edge conflict, and the None of _state_at
NoLocation == <<>>
NoState == <<>>

\* one step of a route, as _compute_timestamps leaves it; times in seconds
RouteStep(location, arrival, departure, is_picking) ==
    [location |-> location, arrival_time_seconds |-> arrival,
     departure_time_seconds |-> departure, is_picking |-> is_picking,
     products |-> IF is_picking
                    THEN <<[order_id |-> "O1", product |-> "P1", quantity |-> 1]>>
                    ELSE <<>>]

Shelf == <<4, 4>>

\* resolve_with_delays: round(departure / 60, 2), in hundredths of a minute
\* (seconds are integers, so no value lies halfway between two hundredths)
total_time_minutes_of(route) ==
    (route[Len(route)].departure_time_seconds * 100 + 30) \div 60

\* the routes given to the detector: the entry point (0,0), the shelf (4,4)
\* and the cells around it
RouteNames == {"pick", "pick_late", "via_west", "via_south", "reverse",
               "cross_east", "cross_north", "from_shelf", "twice", "none",
               "shelf_return"}

RouteData ==
    [n \in RouteNames |->
        CASE n = "pick" ->
                <<RouteStep(entry_point, 0, 0, FALSE), RouteStep(Shelf, 8, 38, TRUE),
                  RouteStep(entry_point, 46, 46, FALSE)>>
          [] n = "pick_late" ->
                <<RouteStep(entry_point, 10, 10, FALSE), RouteStep(Shelf, 18, 48, TRUE),
                  RouteStep(entry_point, 56, 56, FALSE)>>
          [] n = "via_west" ->
                <<RouteStep(entry_point, 0, 0, FALSE), RouteStep(<<3, 4>>, 7, 7, FALSE),
                  RouteStep(Shelf, 8, 8, FALSE), RouteStep(entry_point, 16, 16, FALSE)>>
          [] n = "via_south" ->
                <<RouteStep(entry_point, 0, 0, FALSE), RouteStep(<<4, 3>>, 7, 7, FALSE),
                  RouteStep(Shelf, 8, 8, FALSE), RouteStep(entry_point, 16, 16, FALSE)>>
          [] n = "reverse" ->
                <<RouteStep(entry_point, 0, 0, FALSE), RouteStep(Shelf, 7, 7, FALSE),
                  RouteStep(<<3, 4>>, 8, 8, FALSE), RouteStep(entry_point, 15, 15, FALSE)>>
          [] n = "cross_east" ->
                <<RouteStep(entry_point, 0, 0, FALSE), RouteStep(<<1, 2>>, 3, 3, FALSE),
                  RouteStep(<<3, 2>>, 5, 5, FALSE), RouteStep(entry_point, 10, 10, FALSE)>>
          [] n = "cross_north" ->
                <<RouteStep(entry_point, 0, 0, FALSE), RouteStep(<<2, 1>>, 3, 3, FALSE),
                  RouteStep(<<2, 3>>, 5, 5, FALSE), RouteStep(entry_point, 10, 10, FALSE)>>
          [] n = "from_shelf" ->
                <<RouteStep(Shelf, 5, 11, FALSE), RouteStep(entry_point, 23, 23, FALSE)>>
          [] n = "twice" ->
                <<RouteStep(entry_point, 0, 0, FALSE), RouteStep(<<4, 3>>, 7, 7, FALSE),
                  RouteStep(Shelf, 8, 8, FALSE), RouteStep(<<4, 3>>, 9, 28, TRUE),
                  RouteStep(Shelf, 29, 38, FALSE), RouteStep(entry_point, 46, 46, FALSE)>>
          [] n = "shelf_return" ->
                <<RouteStep(entry_point, 0, 0, FALSE), RouteStep(Shelf, 10, 10, FALSE),
                  RouteStep(entry_point, 18, 18, FALSE)>>
          [] n = "none" -> <<>>]

\* the agents that walk and the routes each of them may be given
RouteAgents == {"R1", "H1", "C1"}

RoutesOf(a) ==
    CASE a = "R1" -> {"pick", "via_west", "cross_east", "shelf_return"}
      [] a = "H1" -> {"pick", "pick_late", "via_south", "reverse", "cross_north"}
      [] a = "C1" -> {"from_shelf", "twice", "none"}

\* one entry of route_results, as optimize_agent_route returns it
RouteResult(a, n) ==
    [agent_id |-> a, agent_type |-> Agents[a].type, route |-> RouteData[n],
     total_time_minutes |-> IF RouteData[n] = <<>> THEN 0
                            ELSE total_time_minutes_of(RouteData[n])]

\* ------------------------------------------------ CollisionDetector
\* _build_timeline: (arrival, departure, location, is_picking) of each step
_build_timeline(route_result) ==
    [i \in 1..Len(route_result.route) |->
        <<route_result.route[i].arrival_time_seconds,
          route_result.route[i].departure_time_seconds,
          route_result.route[i].location,
          route_result.route[i].is_picking>>]

\* _finish_time
_finish_time(timeline) ==
    IF timeline # <<>> THEN timeline[Len(timeline)][2] ELSE 0

\* _state_at: the for loop, from step i on
RECURSIVE state_scan(_, _, _)
state_scan(timeline, t, i) ==
    IF i > Len(timeline) THEN NoState
    ELSE IF timeline[i][1] <= t /\ t <= timeline[i][2]
        THEN <<timeline[i][3], timeline[i][4]>>
    ELSE IF i + 1 <= Len(timeline) /\ timeline[i][2] < t /\ t < timeline[i + 1][1]
        THEN <<timeline[i + 1][3], FALSE>>
    ELSE state_scan(timeline, t, i + 1)

\* _state_at: (location, is_picking) of an agent at time t, or None; an agent
\* between two stops is placed at the stop it is heading to
_state_at(timeline, finish, t) ==
    IF t > finish THEN NoState ELSE state_scan(timeline, t, 1)

\* mutant of vertex_conflict_at: the entry is a location like any other
vertex_conflict_at_entry_too(s1, s2, entry) ==
    IF s1 = NoState \/ s2 = NoState THEN FALSE
    ELSE IF s1[1] # s2[1] THEN FALSE
    ELSE IF s1[2] /\ s2[2] THEN FALSE
    ELSE TRUE

\* mutant of vertex_conflict_at: two picking agents conflict like any two
vertex_conflict_at_picking_too(s1, s2, entry) ==
    IF s1 = NoState \/ s2 = NoState THEN FALSE
    ELSE IF s1[1] # s2[1] \/ s1[1] = entry THEN FALSE
    ELSE TRUE

\* detect_collisions, the test of one pair at one time of the vertex loop:
\* both agents are in the warehouse, at one location that is not the entry,
\* and not both picking
vertex_conflict_at(s1, s2, entry) ==
    IF s1 = NoState \/ s2 = NoState THEN FALSE
    ELSE IF s1[1] # s2[1] \/ s1[1] = entry THEN FALSE
    ELSE IF s1[2] /\ s2[2] THEN FALSE
    ELSE TRUE

\* detect_collisions, the test of one pair of the edge loop: both agents are
\* in the warehouse at t and at t + time_step, neither is picking at t, and
\* each is next where the other is now, away from the entry
edge_conflict_at(s1_now, s1_next, s2_now, s2_next, entry) ==
    IF s1_now = NoState \/ s1_next = NoState \/ s2_now = NoState \/ s2_next = NoState
        THEN FALSE
    ELSE IF s1_now[2] \/ s2_now[2] THEN FALSE
    ELSE s1_now[1] = s2_next[1] /\ s2_now[1] = s1_next[1] /\ s1_now[1] # entry

\* the pairs (i, j), i < j, of n agents in the order of the two for loops
RECURSIVE agent_pairs_from(_, _, _)
agent_pairs_from(n, i, j) ==
    IF i > n THEN <<>>
    ELSE IF j > n THEN agent_pairs_from(n, i + 1, i + 2)
    ELSE << <<i, j>> >> \o agent_pairs_from(n, i, j + 1)

agent_pairs(n) == agent_pairs_from(n, 1, 2)

\* mutant of window_of: windows of twice the length
window_of_wide(time) == time \div (dedup_window * 2)

\* detect_collisions: int(c['time'] / 5) of the deduplication key
window_of(time) == time \div dedup_window

\* the sampled times before t that fall in the window of t
earlier_in_window(t) ==
    {u \in {t - n * time_step : n \in 1..dedup_window} :
        u >= 0 /\ window_of(u) = window_of(t)}

\* detect_collisions: the entry is the first location of the first route
\* that has a step
entry_of(route_results) ==
    LET nonEmpty == {i \in 1..Len(route_results) : route_results[i].route # <<>>}
    IN  IF nonEmpty = {} THEN NoLocation
        ELSE route_results[Min(nonEmpty)].route[1].location

\* detect_collisions.  The two while loops sample t = 0, time_step, ... up
\* to max_time and append a conflict for every pair the test finds; the last
\* pass keeps the first conflict of every key (type, the two agents, window).
\* Agent ids are distinct, so the two agents of a key are one pair (i, j):
\* the conflict of pair p at time t is kept when no earlier time of its
\* window holds a conflict of that type for p.  The result lists the vertex
\* conflicts kept, then the edge conflicts kept, each in loop order.
\* _state_at is None after an agent's finish time, so no test of a pair
\* succeeds after the earlier finish time of the two: the sampled times
\* beyond the last of these are left out.  The n-th sampled time is
\* (n - 1) * time_step.
detect_collisions(route_results) ==
    IF route_results = <<>> THEN <<>>
    ELSE
        LET entry == entry_of(route_results)
            timelines == List([i \in 1..Len(route_results) |->
                            _build_timeline(route_results[i])])
            finish_times == List([i \in 1..Len(route_results) |->
                            _finish_time(timelines[i])])
            max_time == CHOOSE m \in Range(finish_times) :
                            \A f \in Range(finish_times) : f <= m
            pairs == agent_pairs(Len(route_results))
            shared == {IF finish_times[pairs[p][1]] <= finish_times[pairs[p][2]]
                            THEN finish_times[pairs[p][1]]
                            ELSE finish_times[pairs[p][2]] : p \in 1..Len(pairs)}
            last == IF shared = {} THEN 0
                    ELSE CHOOSE m \in shared : \A f \in shared : f <= m
            samples == (last \div time_step) + 1
            \* _state_at of every agent at every sampled time and one step on
            state == List([i \in 1..Len(route_results) |->
                        List([n \in 1..(samples + 1) |->
                            _state_at(timelines[i], finish_times[i],
                                      (n - 1) * time_step)])])
            vertex_found == List([p \in 1..Len(pairs) |-> List([n \in 1..samples |->
                vertex_conflict_at(state[pairs[p][1]][n], state[pairs[p][2]][n],
                                   entry)])])
            edge_found == List([p \in 1..Len(pairs) |-> List([n \in 1..samples |->
                /\ n * time_step <= max_time
                /\ edge_conflict_at(state[pairs[p][1]][n], state[pairs[p][1]][n + 1],
                                    state[pairs[p][2]][n], state[pairs[p][2]][n + 1],
                                    entry)])])
            \* <<n, p>> in the order of the loops: by time, then by pair
            tests == List([q \in 1..(samples * Len(pairs)) |->
                        <<((q - 1) \div Len(pairs)) + 1, ((q - 1) % Len(pairs)) + 1>>])
            first_of_key(found, e) ==
                /\ found[e[2]][e[1]]
                /\ \A u \in earlier_in_window((e[1] - 1) * time_step) :
                    ~found[e[2]][(u \div time_step) + 1]
            vertex_list == SelectSeq(tests, LAMBDA e : first_of_key(vertex_found, e))
            edge_list == SelectSeq(tests, LAMBDA e : first_of_key(edge_found, e))
        IN  [n \in 1..Len(vertex_list) |->
                [type |-> "vertex", time |-> (vertex_list[n][1] - 1) * time_step,
                 agents |-> <<route_results[pairs[vertex_list[n][2]][1]].agent_id,
                              route_results[pairs[vertex_list[n][2]][2]].agent_id>>,
                 location |-> state[pairs[vertex_list[n][2]][1]][vertex_list[n][1]][1]]]
            \o
            [n \in 1..Len(edge_list) |->
                [type |-> "edge", time |-> (edge_list[n][1] - 1) * time_step,
                 agents |-> <<route_results[pairs[edge_list[n][2]][1]].agent_id,
                              route_results[pairs[edge_list[n][2]][2]].agent_id>>,
                 location |-> NoLocation]]

\* resolve_with_delays: best_state, a copy of every route and total time
state_copy(route_results) ==
    [i \in 1..Len(route_results) |->
        [route |-> route_results[i].route,
         total_time_minutes |-> route_results[i].total_time_minutes]]

\* resolve_with_delays: agent_to_delay = conflict['agents'][1]
agent_to_delay_of(conflict) == conflict.agents[2]

\* mutant of delay_steps: only the arrival of a step is moved
delay_steps_arrival_only(route, conflict_time) ==
    [i \in 1..Len(route) |->
        IF route[i].arrival_time_seconds >= conflict_time
            THEN [route[i] EXCEPT
                    !.arrival_time_seconds = @ + START_STAGGER_SECONDS]
            ELSE route[i]]

\* mutant of delay_steps: every step of the route is moved
delay_steps_all(route, conflict_time) ==
    [i \in 1..Len(route) |->
        [route[i] EXCEPT
            !.arrival_time_seconds = @ + START_STAGGER_SECONDS,
            !.departure_time_seconds = @ + START_STAGGER_SECONDS]]

\* resolve_with_delays: every step that arrives at conflict_time or later is
\* moved START_STAGGER_SECONDS later
delay_steps(route, conflict_time) ==
    [i \in 1..Len(route) |->
        IF route[i].arrival_time_seconds >= conflict_time
            THEN [route[i] EXCEPT
                    !.arrival_time_seconds = @ + START_STAGGER_SECONDS,
                    !.departure_time_seconds = @ + START_STAGGER_SECONDS]
            ELSE route[i]]

\* resolve_with_delays: the routes after the delay of one round
delay_agent(route_results, agent_to_delay, conflict_time) ==
    [i \in 1..Len(route_results) |->
        IF route_results[i].agent_id = agent_to_delay
            THEN LET route == delay_steps(route_results[i].route, conflict_time)
                 IN  [route_results[i] EXCEPT
                        !.route = route,
                        !.total_time_minutes =
                            IF route # <<>> THEN total_time_minutes_of(route) ELSE @]
            ELSE route_results[i]]

\* mutant of resolution_worsened: the final state is always kept
resolution_never_worsened(final_count, best_count) == FALSE

\* resolve_with_delays: "if len(final_conflicts) > best_count"
resolution_worsened(final_count, best_count) == final_count > best_count

\* resolve_with_delays: every agent gets its route and total time of
\* best_state back
restore_best(route_results, best_state) ==
    [i \in 1..Len(route_results) |->
        [route_results[i] EXCEPT
            !.route = best_state[i].route,
            !.total_time_minutes = best_state[i].total_time_minutes]]

\* the allocator and the checker harness are not used
AllocationUnused ==
    /\ agents = <<>>
    /\ orders = <<>>
    /\ current_load_weight = [a \in AgentIds |-> 0]
    /\ current_load_volume = [a \in AgentIds |-> 0]
    /\ current_products = [a \in AgentIds |-> <<>>]
    /\ assigned_orders = [a \in AgentIds |-> <<>>]
    /\ assigned_human = [c \in Carts |-> None]
    /\ assigned_cart = [h \in Humans |-> None]
    /\ assigned_agent = [o \in OrderIds |-> None]
    /\ pc = "idle"
    /\ sorted_orders = <<>>
    /\ sorted_agents = <<>>
    /\ k = 1
    /\ successful_assignments = <<>>
    /\ failed_assignments = <<>>
    /\ result = NoResult
    /\ prev_result = NoResult
    /\ runs = 0
    /\ chk = [phase |-> "off"]
    /\ caller = [kind |-> "off"]

\* the route lists given to the detector: at most MaxRoutes agents, each
\* once, each with one of its routes
RouteInputs ==
    {[i \in 1..Len(as) |-> RouteResult(as[i], names[i])] :
        <<as, names>> \in
            {x \in DistinctSeqs(RouteAgents, MaxRoutes)
                    \X UNION {[1..m -> RouteNames] : m \in 0..MaxRoutes} :
                /\ Len(x[1]) = Len(x[2])
                /\ \A i \in 1..Len(x[1]) : x[2][i] \in RoutesOf(x[1][i])}}

\* coll: route_results is the list the detector works on (the resolver
\* changes it in place) and input the list as it was given; detected is what
\* detect_collisions returned; best_count, best_state, iteration and
\* conflicts (the result of its last detect_collisions call) are the locals
\* of resolve_with_delays; abandoned is set when "Resolution
\* abandonnee" is printed; observed holds the number of conflicts of every
\* detect_collisions call of the resolver, and last_round the conflict and
\* the agent of its last delay
InitColl ==
    /\ \E rr \in RouteInputs :
        coll = [phase |-> "input", route_results |-> rr, input |-> rr,
                detected |-> <<>>, conflicts |-> <<>>,
                best_count |-> 0, best_state |-> <<>>,
                iteration |-> 0, abandoned |-> FALSE, observed |-> <<>>,
                last_round |-> <<>>]
    /\ AllocationUnused

\* a call of detect_collisions on the routes
DetectCollisions ==
    /\ coll.phase = "input"
    /\ coll' = [coll EXCEPT !.phase = "detected",
                            !.detected = detect_collisions(coll.route_results)]
    /\ UNCHANGED <<allocVars, chk, caller>>

\* resolve_with_delays up to its loop
ResolveStart ==
    /\ coll.phase = "detected"
    /\ LET initial_conflicts == detect_collisions(coll.route_results)
       IN  coll' = [coll EXCEPT
                !.phase = "loop",
                !.conflicts = initial_conflicts,
                !.best_count = Len(initial_conflicts),
                !.best_state = state_copy(coll.route_results),
                !.observed = <<Len(initial_conflicts)>>]
    /\ UNCHANGED <<allocVars, chk, caller>>

\* resolve_with_delays: one iteration of "for _ in range(max_iterations)"
ResolveRound ==
    /\ coll.phase = "loop"
    /\ coll.iteration < max_iterations
    /\ LET conflicts == detect_collisions(coll.route_results)
           vertex_conflicts == SelectSeq(conflicts, LAMBDA c : c.type = "vertex")
       IN  IF vertex_conflicts = <<>>
            THEN coll' = [coll EXCEPT
                    !.phase = "final",
                    !.conflicts = conflicts,
                    !.observed = Append(@, Len(conflicts))]
            ELSE LET improved == Len(conflicts) < coll.best_count
                     conflict == vertex_conflicts[1]
                     agent_to_delay == agent_to_delay_of(conflict)
                     conflict_time == conflict.time
                 IN  coll' = [coll EXCEPT
                        !.conflicts = conflicts,
                        !.best_count = IF improved THEN Len(conflicts) ELSE @,
                        !.best_state = IF improved
                                          THEN state_copy(coll.route_results) ELSE @,
                        !.route_results = delay_agent(@, agent_to_delay, conflict_time),
                        !.iteration = @ + 1,
                        !.phase = IF coll.iteration + 1 = max_iterations
                                    THEN "final" ELSE "loop",
                        !.observed = Append(@, Len(conflicts)),
                        !.last_round = <<[conflict |-> conflict,
                                          agent |-> agent_to_delay]>>]
    /\ UNCHANGED <<allocVars, chk, caller>>

\* resolve_with_delays after its loop, to the return
ResolveFinish ==
    /\ coll.phase = "final"
    /\ LET final_conflicts == detect_collisions(coll.route_results)
           worse == resolution_worsened(Len(final_conflicts), coll.best_count)
       IN  coll' = [coll EXCEPT
                !.phase = "returned",
                !.conflicts = final_conflicts,
                !.route_results = IF worse THEN restore_best(@, coll.best_state) ELSE @,
                !.abandoned = worse,
                !.observed = Append(@, Len(final_conflicts))]
    /\ UNCHANGED <<allocVars, chk, caller>>

NextColl == DetectCollisions \/ ResolveStart \/ ResolveRound \/ ResolveFinish

SpecColl == InitColl /\ [][NextColl]_vars

\* ------------------------------------------------------------------ claims
\* the totals of an order, from its items and the catalogue
OrderWeight(o) ==
    SeqSum([i \in 1..Len(OrderData[o].items) |->
        IF OrderData[o].items[i].product_id \in ProductIds
            THEN Products[OrderData[o].items[i].product_id].weight
                    * OrderData[o].items[i].quantity
            ELSE 0])

OrderVolume(o) ==
    SeqSum([i \in 1..Len(OrderData[o].items) |->
        IF OrderData[o].items[i].product_id \in ProductIds
            THEN Products[OrderData[o].items[i].product_id].volume
                    * OrderData[o].items[i].quantity
            ELSE 0])

AssignedWeight(a) ==
    SeqSum([i \in 1..Len(assigned_orders[a]) |-> OrderWeight(assigned_orders[a][i])])

AssignedVolume(a) ==
    SeqSum([i \in 1..Len(assigned_orders[a]) |-> OrderVolume(assigned_orders[a][i])])

\* the errors of one agent recorded for a failed order
ReasonsOf(f, a) ==
    {f.reasons[i].errors : i \in {j \in 1..Len(f.reasons) : f.reasons[j].agent_id = a}}

FailedIds == {failed_assignments[i].order_id : i \in 1..Len(failed_assignments)}
SuccessfulIds ==
    {successful_assignments[i].order_id : i \in 1..Len(successful_assignments)}

\* C1: in every state of a pass and after it, the orders assigned to an
\* agent weigh at most capacity_weight and fill at most capacity_volume.
C1_CapacityRespected ==
    \A a \in AgentIds :
        /\ AssignedWeight(a) <= Agents[a].capacity_weight
        /\ AssignedVolume(a) <= Agents[a].capacity_volume

\* C1 witness: a pass is over, an agent holds an order and a further order
\* was refused by that agent for lack of capacity.
C1_Witness ==
    /\ pc = "done"
    /\ \E a \in Range(agents) :
        /\ Len(assigned_orders[a]) >= 1
        /\ \E i \in 1..Len(failed_assignments) :
            \E e \in ReasonsOf(failed_assignments[i], a) :
                \E j \in 1..Len(e) : e[j][1] = "C1"

\* C2: a cart without a human never holds an order.
C2_UnpairedCartEmpty ==
    \A c \in Carts : assigned_human[c] = None => assigned_orders[c] = <<>>

\* C2 witness: an unpaired cart was offered an order that only the missing
\* human kept it from taking, and the order failed.
C2_Witness ==
    /\ pc = "done"
    /\ \E c \in Carts \cap Range(agents) :
        /\ assigned_human[c] = None
        /\ \E i \in 1..Len(failed_assignments) :
            ReasonsOf(failed_assignments[i], c) = {<< <<"C4", "needs human">> >>}

\* the number of copies of product p among the items of order o
CopiesIn(o, p) ==
    SeqSum([i \in 1..Len(OrderData[o].items) |->
        IF OrderData[o].items[i].product_id = p
            THEN OrderData[o].items[i].quantity ELSE 0])

\* C3: an order is assigned to at most one agent, and an agent's load
\* counters and carried products are exactly those of its assigned orders.
C3_AtomicCommit ==
    /\ \A o \in OrderIds :
        Cardinality(UNION {{<<a, i>> : i \in {j \in DOMAIN assigned_orders[a] :
                                assigned_orders[a][j] = o}} : a \in AgentIds}) <= 1
    /\ \A a \in AgentIds :
        /\ current_load_weight[a] = AssignedWeight(a)
        /\ current_load_volume[a] = AssignedVolume(a)
        /\ \A p \in ProductIds :
            Cardinality({i \in 1..Len(current_products[a]) :
                            current_products[a][i].id = p})
              = SeqSum([i \in 1..Len(assigned_orders[a]) |->
                            CopiesIn(assigned_orders[a][i], p)])

\* C3 witness: a pass is over in which two agents hold orders, one of them
\* an order with an item of quantity two.
C3_Witness ==
    /\ pc = "done"
    /\ \E a, b \in Range(agents) :
        /\ a # b
        /\ assigned_orders[a] # <<>>
        /\ \E i \in 1..Len(assigned_orders[b]) :
            \E j \in 1..Len(OrderData[assigned_orders[b][i]].items) :
                OrderData[assigned_orders[b][i]].items[j].quantity >= 2

\* the position of order o in sorted_orders
PosOf(o) == CHOOSE i \in 1..Len(sorted_orders) : sorted_orders[i] = o

\* the violations of the pair (a, o) that do not depend on the load
StaticErrors(a, o) ==
    SelectSeq(can_assign_order(a, o).errors, LAMBDA e : e[1] # "C1")

\* C4: once the pass has sorted its input, no standard order stands before an
\* express order in the sequence the orders are offered in; and with one
\* robot and the input <<standard, express>>, each order feasible alone but
\* not both together, the pass ends with the express order assigned and the
\* standard order failed.
C4_ExpressFirst ==
    /\ pc # "idle" =>
        /\ Len(sorted_orders) = Len(orders)
        /\ Range(sorted_orders) = Range(orders)
        /\ \A i, j \in 1..Len(sorted_orders) :
            (/\ OrderData[sorted_orders[i]].priority = "express"
             /\ OrderData[sorted_orders[j]].priority # "express") => i < j
    /\ (/\ pc = "done"
        /\ Len(agents) = 1 /\ Len(orders) = 2
        /\ Agents[agents[1]].type = "robot"
        /\ OrderData[orders[1]].priority = "standard"
        /\ OrderData[orders[2]].priority = "express"
        /\ \A i \in 1..2 :
            /\ StaticErrors(agents[1], orders[i]) = <<>>
            /\ OrderWeight(orders[i]) <= Agents[agents[1]].capacity_weight
            /\ OrderVolume(orders[i]) <= Agents[agents[1]].capacity_volume
        /\ \/ OrderWeight(orders[1]) + OrderWeight(orders[2])
                    > Agents[agents[1]].capacity_weight
           \/ OrderVolume(orders[1]) + OrderVolume(orders[2])
                    > Agents[agents[1]].capacity_volume)
       => /\ assigned_orders[agents[1]] = <<orders[2]>>
          /\ FailedIds = {orders[1]}

\* C4 witness: the test's case, robot R2 (5 kg) with the standard O2 listed
\* before the express O4, has run to its end.
C4_Witness ==
    /\ pc = "done"
    /\ agents = <<"R2">>
    /\ orders = <<"O2", "O4">>
    /\ assigned_orders["R2"] = <<"O4">>

\* the orders of successful_assignments committed to agent a, in order
CommittedTo(a) ==
    LET mine == SelectSeq(successful_assignments, LAMBDA r : r.agent_id = a)
    IN  [i \in 1..Len(mine) |-> mine[i].order_id]

\* C5: a second pass on the same agents and orders returns what the first
\* returned, and the agents hold exactly what this pass committed.
C5_Idempotent ==
    (pc = "done" /\ runs >= 2) =>
        /\ result = prev_result
        /\ \A a \in Range(agents) : assigned_orders[a] = CommittedTo(a)
        /\ \A a \in AgentIds :
            /\ current_load_weight[a] = AssignedWeight(a)
            /\ current_load_volume[a] = AssignedVolume(a)

\* C5 witness: a second pass is over, in which an order was committed and
\* another was refused for lack of capacity.
C5_Witness ==
    /\ pc = "done"
    /\ runs = 2
    /\ successful_assignments # <<>>
    /\ \E i \in 1..Len(failed_assignments) :
        \E j \in 1..Len(failed_assignments[i].reasons) :
            \E e \in Range(failed_assignments[i].reasons[j].errors) : e[1] = "C1"

\* C6: robot R1 (20 kg / 30 dm3, no_fragile) and human H1 (35 kg / 50 dm3),
\* O1 = one 25 kg fragile item, O2 = one 5 kg item: the robot refuses O1 for
\* capacity and for fragility, and the pass gives O1 to the human, O2 to the
\* robot and fails no order.
C6_Scenario ==
    (Range(agents) = {"R1", "H1"} /\ Range(orders) = {"O1", "O2"}) =>
        /\ can_assign_order("R1", "O1").errors
              = << <<"C1", "capacity weight">>, <<"C3", "fragile", "P1">> >>
        /\ ~can_assign_order("R1", "O1").ok
        /\ pc = "done" =>
            /\ assigned_orders["H1"] = <<"O1">>
            /\ assigned_orders["R1"] = <<"O2">>
            /\ assigned_agent["O1"] = "H1"
            /\ assigned_agent["O2"] = "R1"
            /\ failed_assignments = <<>>
            /\ result.failed_orders = 0

\* C6 witness: the scenario has run to its end.
C6_Witness ==
    /\ pc = "done"
    /\ agents = <<"R1", "H1">>
    /\ orders = <<"O1", "O2">>
    /\ assigned_agent["O1"] = "H1"

C9_NoIncompatibleLoad ==
    \A a \in AgentIds :
        \A i, j \in 1..Len(current_products[a]) :
            i # j => /\ current_products[a][j].id
                            \notin current_products[a][i].incompatible_with
                     /\ current_products[a][i].id
                            \notin current_products[a][j].incompatible_with

\* C8: is_compatible_with gives the same answer in both directions, the
\* answer is false as soon as either product lists the other, and
\* check_product_compatibility gives a permuted list the same verdict.
C8_SymmetricIncompatibility ==
    chk.phase = "out" =>
        /\ \A i, j \in 1..Len(chk.products) :
            /\ chk.compat[i][j] = chk.compat[j][i]
            /\ (\/ chk.products[j].id \in chk.products[i].incompatible_with
                \/ chk.products[i].id \in chk.products[j].incompatible_with)
               => (~chk.compat[i][j] /\ ~chk.compat[j][i])
        /\ chk.verdict = chk.verdict_perm

\* C8 witness: the checks have run on a list in which one product lists
\* another that does not list it back, under a permutation that moves them.
C8_Witness ==
    /\ chk.phase = "out"
    /\ ~chk.verdict
    /\ \E i, j \in 1..Len(chk.products) :
        /\ i < j
        /\ chk.perm[i] > chk.perm[j]
        /\ chk.products[i].id \in chk.products[j].incompatible_with
        /\ chk.products[j].id \notin chk.products[i].incompatible_with

\* the single tests that the pair (a, o) breaks, read off the data
Broken(a, o) ==
    LET A == Agents[a]
        items == SelectSeq(OrderData[o].items,
                           LAMBDA it : it.product_id \in ProductIds)
        P(i) == Products[items[i].product_id]
        isRobot == A.type = "robot"
    IN  {t \in {"weight", "volume", "zone", "fragile", "heavy",
                "incompatible", "cart"} :
            \/ t = "weight"
                /\ current_load_weight[a] + OrderWeight(o) > A.capacity_weight
            \/ t = "volume"
                /\ current_load_volume[a] + OrderVolume(o) > A.capacity_volume
            \/ t = "zone" /\ isRobot /\ "no_zones" \in DOMAIN A.restrictions
                /\ \E i \in 1..Len(items) :
                    \E z \in 1..Len(zones) :
                        /\ P(i).location \in zones[z].coords
                        /\ zones[z].id \in A.restrictions.no_zones
            \/ t = "fragile" /\ isRobot /\ "no_fragile" \in DOMAIN A.restrictions
                /\ A.restrictions.no_fragile
                /\ \E i \in 1..Len(items) : P(i).fragile
            \/ t = "heavy" /\ isRobot /\ "max_item_weight" \in DOMAIN A.restrictions
                /\ \E i \in 1..Len(items) :
                    P(i).weight > A.restrictions.max_item_weight
            \/ t = "incompatible"
                /\ \E i, j \in 1..Len(items) :
                    i # j /\ P(j).id \in P(i).incompatible_with
            \/ t = "cart" /\ A.type = "cart" /\ assigned_human[a] = None}

\* the single test an entry of the error list reports
TestOf(e) ==
    CASE e[1] = "C1" -> IF e[2] = "capacity weight" THEN "weight" ELSE "volume"
      [] e[1] = "C2" -> "incompatible"
      [] e[1] = "C3" -> e[2]
      [] e[1] = "C4" -> "cart"
      [] OTHER -> "deadline"

\* the constraint of the module's list (C1..C4) a single test belongs to
FamilyOf(t) ==
    CASE t \in {"weight", "volume"} -> "C1"
      [] t = "incompatible" -> "C2"
      [] t \in {"zone", "fragile", "heavy"} -> "C3"
      [] OTHER -> "C4"

\* C10 as stated: success exactly when the list is empty, and every broken
\* test (weight, volume, zone, fragile, item weight, in-order
\* incompatibility, unpaired cart) has its own entry in the list.
C10_EveryViolationListed ==
    \A a \in Range(agents) : \A o \in Range(orders) :
        LET r == can_assign_order(a, o)
        IN  /\ r.ok <=> r.errors = <<>>
            /\ Broken(a, o) \subseteq {TestOf(r.errors[i]) : i \in 1..Len(r.errors)}

\* the pair (a, o) misses the deadline: travel from the entry point to
\* each pick location at the agent's speed plus half a minute per item
\* exceeds the minutes from midnight to the deadline
DeadlineMissed(a, o) ==
    LET d == OrderData[o].deadline
        minutes == (10 * d[1] + d[2]) * 60 + 10 * d[4] + d[5]
        locs == {Products[it.product_id].location :
                    it \in {x \in Range(OrderData[o].items) :
                                x.product_id \in ProductIds}}
        dist == SeqSum([i \in 1..Len(OrderData[o].items) |->
                    IF /\ OrderData[o].items[i].product_id \in ProductIds
                       /\ \A j \in 1..(i - 1) :
                            \/ OrderData[o].items[j].product_id \notin ProductIds
                            \/ Products[OrderData[o].items[j].product_id].location
                                # Products[OrderData[o].items[i].product_id].location
                    THEN Products[OrderData[o].items[i].product_id].location[1]
                       + Products[OrderData[o].items[i].product_id].location[2]
                    ELSE 0])
    IN  /\ locs # {}
        /\ 10 * dist + 30 * Agents[a].speed * Len(OrderData[o].items)
                > 60 * Agents[a].speed * minutes

\* C10 amended: success exactly when the list is empty, and the list has
\* one entry for each broken constraint among C1 capacity, C2 in-order
\* incompatibility, C3 robot restrictions, C4 unpaired cart and C5 deadline,
\* in that order; the entry of C1 and of C3 names only the first broken test
\* of its constraint (weight before volume; zone before fragile before item
\* weight).
C10_OneEntryPerConstraint ==
    \A a \in Range(agents) : \A o \in Range(orders) :
        LET r == can_assign_order(a, o)
            listed == SelectSeq(r.errors, LAMBDA e : e[1] # "C5")
            tests == [i \in 1..Len(listed) |-> TestOf(listed[i])]
            rank == [t \in {"weight", "volume", "incompatible", "zone",
                            "fragile", "heavy", "cart"} |->
                        CASE t = "weight" -> 1 [] t = "volume" -> 2
                          [] t = "incompatible" -> 3 [] t = "zone" -> 4
                          [] t = "fragile" -> 5 [] t = "heavy" -> 6
                          [] OTHER -> 7]
        IN  /\ r.ok <=> r.errors = <<>>
            /\ r.ok <=> (Broken(a, o) = {} /\ ~DeadlineMissed(a, o))
            /\ {listed[i][1] : i \in 1..Len(listed)}
                    = {FamilyOf(t) : t \in Broken(a, o)}
            /\ \A i, j \in 1..Len(listed) : i < j => rank[tests[i]] < rank[tests[j]]
            /\ \A i \in 1..Len(tests) :
                /\ tests[i] \in Broken(a, o)
                /\ \A t \in Broken(a, o) :
                    FamilyOf(t) = FamilyOf(tests[i]) => rank[tests[i]] <= rank[t]
            /\ Len(r.errors) = Len(listed) + (IF DeadlineMissed(a, o) THEN 1 ELSE 0)
            /\ DeadlineMissed(a, o) => r.errors[Len(r.errors)][1] = "C5"

\* C10 witness: a pass recorded, for a failed order, an agent with two
\* entries in its error list although the pair breaks four single tests.
C10_Witness ==
    /\ pc = "done"
    /\ \E i \in 1..Len(failed_assignments) :
        \E j \in 1..Len(failed_assignments[i].reasons) :
            LET f == failed_assignments[i]
            IN  /\ Len(f.reasons[j].errors) = 2
                /\ Cardinality(Broken(f.reasons[j].agent_id, f.order_id)) >= 4

\* C11: once a pass has started, every cart of the input that shares the
\* list with a human who is paired with no cart has a human, so that it is
\* operational.
C11_CartsAutoPaired ==
    pc # "idle" =>
        \A c \in Carts \cap Range(agents) :
            (\E h \in Humans \cap Range(agents) :
                /\ assigned_cart[h] = None
                /\ \A d \in Carts : assigned_human[d] # h)
              => assigned_human[c] # None

\* the rank of an agent's kind in the scan of allocate: robot, human, cart
KindRank(a) ==
    CASE Agents[a].type = "robot" -> 1
      [] Agents[a].type = "human" -> 2
      [] Agents[a].type = "cart" -> 3

\* the rank of an agent's kind in the scan the spec describes: robot, cart,
\* human
SpecKindRank(a) ==
    CASE Agents[a].type = "robot" -> 1
      [] Agents[a].type = "cart" -> 2
      [] Agents[a].type = "human" -> 3

\* agent a can take order o when it carries nothing
FitsAlone(a, o) ==
    /\ StaticErrors(a, o) = <<>>
    /\ OrderWeight(o) <= Agents[a].capacity_weight
    /\ OrderVolume(o) <= Agents[a].capacity_volume

\* the agents of the input that can take order o when they carry nothing
FeasibleFor(o) == {a \in Range(agents) : FitsAlone(a, o)}

\* C12 (as the code has it): the agents are scanned robots first, then
\* humans, then carts, ascending cost_per_hour within a kind; a single order
\* goes to the first agent of that scan that can take it: to a robot when a
\* robot can, and to the human when a paired cart and a human can and no robot.
C12_RobotHumanCart ==
    pc # "idle" =>
        /\ \A i, j \in 1..Len(sorted_agents) :
            i < j =>
                /\ KindRank(sorted_agents[i]) <= KindRank(sorted_agents[j])
                /\ KindRank(sorted_agents[i]) = KindRank(sorted_agents[j])
                    => Agents[sorted_agents[i]].cost_per_hour
                          <= Agents[sorted_agents[j]].cost_per_hour
        /\ (pc = "done" /\ Len(orders) = 1 /\ FeasibleFor(orders[1]) # {}) =>
            LET o == orders[1]
                a == assigned_agent[o]
            IN  /\ a \in FeasibleFor(o)
                /\ \A b \in FeasibleFor(o) : KindRank(a) <= KindRank(b)
                /\ (\E b \in FeasibleFor(o) : Agents[b].type = "robot")
                      => Agents[a].type = "robot"
                /\ (/\ \E b \in FeasibleFor(o) : Agents[b].type = "cart"
                    /\ \E b \in FeasibleFor(o) : Agents[b].type = "human"
                    /\ \A b \in FeasibleFor(o) : Agents[b].type # "robot")
                      => Agents[a].type = "human"

\* C12 witness: a pass over the paired cart C1 and the human H1 is over; the
\* one order O2 suited both and went to the human.
C12_Witness ==
    /\ pc = "done"
    /\ Range(agents) = {"C1", "H1"}
    /\ assigned_human["C1"] = "H1"
    /\ orders = <<"O2">>
    /\ FeasibleFor("O2") = {"C1", "H1"}
    /\ assigned_agent["O2"] = "H1"

\* C12 (as stated): the agents are scanned robots first, then carts, then
\* humans; a single order that a paired cart and a human can take, and no
\* robot, goes to the cart.
C12_RobotCartHuman ==
    pc # "idle" =>
        /\ \A i, j \in 1..Len(sorted_agents) :
            i < j => SpecKindRank(sorted_agents[i]) <= SpecKindRank(sorted_agents[j])
        /\ (pc = "done" /\ Len(orders) = 1) =>
            LET o == orders[1]
            IN  (/\ \E b \in FeasibleFor(o) : Agents[b].type = "cart"
                 /\ \E b \in FeasibleFor(o) : Agents[b].type = "human"
                 /\ \A b \in FeasibleFor(o) : Agents[b].type # "robot")
                   => Agents[assigned_agent[o]].type = "cart"

\* the position of order o in the input
InputPosOf(o) == CHOOSE i \in 1..Len(orders) : orders[i] = o

\* two orders of one agent that each fit alone and do not fit together
CompeteForCapacity(a, o1, o2) ==
    /\ FitsAlone(a, o1)
    /\ FitsAlone(a, o2)
    /\ \/ OrderWeight(o1) + OrderWeight(o2) > Agents[a].capacity_weight
       \/ OrderVolume(o1) + OrderVolume(o2) > Agents[a].capacity_volume

\* C13 (as the code has it): within one priority class the orders are
\* offered by ascending deadline, the clock time alone, whatever their
\* received time, and orders of one deadline keep their input order; of two
\* orders of one class that compete for the capacity of a single agent, the
\* one with the earlier deadline is assigned and the other fails.
C13_DeadlineOrder ==
    pc # "idle" =>
        /\ \A i, j \in 1..Len(sorted_orders) :
            (/\ i < j
             /\ OrderData[sorted_orders[i]].priority
                    = OrderData[sorted_orders[j]].priority) =>
                /\ time_to_minutes(OrderData[sorted_orders[i]].deadline)
                      <= time_to_minutes(OrderData[sorted_orders[j]].deadline)
                /\ OrderData[sorted_orders[i]].deadline
                        = OrderData[sorted_orders[j]].deadline
                      => InputPosOf(sorted_orders[i]) < InputPosOf(sorted_orders[j])
        /\ (/\ pc = "done"
            /\ Len(agents) = 1 /\ Len(orders) = 2
            /\ OrderData[orders[1]].priority = OrderData[orders[2]].priority
            /\ CompeteForCapacity(agents[1], orders[1], orders[2])
            /\ time_to_minutes(OrderData[orders[2]].deadline)
                  < time_to_minutes(OrderData[orders[1]].deadline))
           => /\ assigned_orders[agents[1]] = <<orders[2]>>
              /\ FailedIds = {orders[1]}

\* C13 witness: a pass of robot R2 (5 kg) is over; O3 (deadline 12:00, one
\* hour left) stood in the input before O2 (deadline 10:00, two hours left),
\* and O2 was assigned while O3 failed.
C13_Witness ==
    /\ pc = "done"
    /\ agents = <<"R2">>
    /\ orders = <<"O3", "O2">>
    /\ time_to_deadline("O3") < time_to_deadline("O2")
    /\ CompeteForCapacity("R2", "O3", "O2")
    /\ assigned_orders["R2"] = <<"O2">>
    /\ FailedIds = {"O3"}

\* C13 (as stated): within one priority class the orders are offered by
\* ascending remaining time, deadline minus received time, and of two orders
\* of one class that compete for the capacity of a single agent the one with
\* the smaller remaining time is assigned.
C13_RemainingTimeOrder ==
    pc # "idle" =>
        /\ \A i, j \in 1..Len(sorted_orders) :
            (/\ i < j
             /\ OrderData[sorted_orders[i]].priority
                    = OrderData[sorted_orders[j]].priority) =>
                time_to_deadline(sorted_orders[i]) <= time_to_deadline(sorted_orders[j])
        /\ (/\ pc = "done"
            /\ Len(agents) = 1 /\ Len(orders) = 2
            /\ OrderData[orders[1]].priority = OrderData[orders[2]].priority
            /\ CompeteForCapacity(agents[1], orders[1], orders[2])
            /\ time_to_deadline(orders[2]) < time_to_deadline(orders[1]))
           => /\ assigned_orders[agents[1]] = <<orders[2]>>
              /\ FailedIds = {orders[1]}

\* ------------------------------------------- claims on the detector
\* the state of the i-th agent of the given routes at time t
InputState(i, t) ==
    _state_at(_build_timeline(coll.input[i]),
              _finish_time(_build_timeline(coll.input[i])), t)

\* the times detect_collisions samples on the given routes
InputTimes ==
    LET finish == {_finish_time(_build_timeline(coll.input[i])) :
                        i \in 1..Len(coll.input)}
        max_time == IF finish = {} THEN 0
                    ELSE CHOOSE m \in finish : \A f \in finish : f <= m
    IN  {n * time_step : n \in 0..(max_time \div time_step)}

\* agents i and j of the given routes are both at one location at time t
Together(i, j, t) ==
    /\ InputState(i, t) # NoState
    /\ InputState(j, t) # NoState
    /\ InputState(i, t)[1] = InputState(j, t)[1]

\* C14: no conflict that detect_collisions returns, on the given routes or
\* inside the resolver, is located at the entry point, the first location of
\* the first route that has a step.
C14_EntryIsFree ==
    coll.phase # "off" =>
        \A c \in Range(coll.detected) \cup Range(coll.conflicts) :
            c.location # entry_of(coll.input)

\* C14 witness: detect_collisions has run on routes that hold two agents at
\* the entry point at one sampled time, not both picking.
C14_Witness ==
    /\ coll.phase = "detected"
    /\ \E i, j \in 1..Len(coll.input) : \E t \in InputTimes :
        /\ i < j
        /\ Together(i, j, t)
        /\ InputState(i, t)[1] = entry_of(coll.input)
        /\ ~(InputState(i, t)[2] /\ InputState(j, t)[2])

\* C15: on the given routes, two agents that are both picking at one
\* location at a sampled time get no vertex conflict for that time; two
\* agents at one location other than the entry, not both picking, get a
\* vertex conflict for their pair in the window of that time, at that time
\* or before.
C15_PickingTogether ==
    coll.phase = "detected" =>
        \A i, j \in 1..Len(coll.input) : \A t \in InputTimes :
            (i < j /\ Together(i, j, t)) =>
                LET mine == {c \in Range(coll.detected) :
                                /\ c.type = "vertex"
                                /\ c.agents = <<coll.input[i].agent_id,
                                                coll.input[j].agent_id>>}
                IN  /\ (InputState(i, t)[2] /\ InputState(j, t)[2])
                        => \A c \in mine : c.time # t
                    /\ (/\ ~(InputState(i, t)[2] /\ InputState(j, t)[2])
                        /\ InputState(i, t)[1] # entry_of(coll.input))
                        => \E c \in mine :
                            /\ window_of(c.time) = window_of(t)
                            /\ c.time <= t
                            /\ c.time = t => c.location = InputState(i, t)[1]

\* C15 witness: detect_collisions has run on routes with two agents picking
\* together at the shelf at one time, and at another time one of them
\* picking there while the other arrives.
C15_Witness ==
    /\ coll.phase = "detected"
    /\ \E i, j \in 1..Len(coll.input) : \E t, u \in InputTimes :
        /\ i < j
        /\ Together(i, j, t)
        /\ InputState(i, t)[2] /\ InputState(j, t)[2]
        /\ Together(i, j, u)
        /\ InputState(i, u)[1] = Shelf
        /\ InputState(i, u)[2] /\ ~InputState(j, u)[2]
        /\ \E c \in Range(coll.detected) : c.type = "vertex" /\ c.location = Shelf

\* the step a walker of this route has left at time t and has not yet
\* followed by the next arrival, or 0 when it is not between two stops
TransitFrom(route, t) ==
    LET between == {n \in 1..(Len(route) - 1) :
                        /\ route[n].departure_time_seconds < t
                        /\ t < route[n + 1].arrival_time_seconds}
    IN  IF between = {} THEN 0 ELSE Min(between)

\* the cell of a walker between two stops at time t: the cells of the
\* Manhattan segment, first along x and then along y, covered in proportion
\* to the time gone
TransitCell(route, t) ==
    LET n == TransitFrom(route, t)
        from == route[n].location
        to == route[n + 1].location
        gone == t - route[n].departure_time_seconds
        whole == route[n + 1].arrival_time_seconds - route[n].departure_time_seconds
        cells == (gone * (Abs(to[1] - from[1]) + Abs(to[2] - from[2]))) \div whole
        along_x == IF cells <= Abs(to[1] - from[1]) THEN cells ELSE Abs(to[1] - from[1])
        along_y == cells - along_x
    IN  <<from[1] + (IF to[1] >= from[1] THEN along_x ELSE -along_x),
          from[2] + (IF to[2] >= from[2] THEN along_y ELSE -along_y)>>

\* C16: on the given routes, two agents that are between two stops at a
\* sampled time, in one cell of their travel segments other than the entry,
\* get a vertex conflict for their pair in the window of that time.
C16_TransitConflict ==
    coll.phase = "detected" =>
        \A i, j \in 1..Len(coll.input) : \A t \in InputTimes :
            (/\ i < j
             /\ TransitFrom(coll.input[i].route, t) # 0
             /\ TransitFrom(coll.input[j].route, t) # 0
             /\ TransitCell(coll.input[i].route, t) = TransitCell(coll.input[j].route, t)
             /\ TransitCell(coll.input[i].route, t) # entry_of(coll.input))
            => \E c \in Range(coll.detected) :
                /\ c.type = "vertex"
                /\ c.agents = <<coll.input[i].agent_id, coll.input[j].agent_id>>
                /\ window_of(c.time) = window_of(t)

\* C17: the routes resolve_with_delays returns have no more conflicts than
\* the given routes and than any state the resolver has looked at (the given
\* routes, the routes at the start of every round, the routes after the
\* loop); when the routes after the loop have more conflicts than the best
\* count, every agent has the route and the total time of the best state
\* back.
C17_NeverWorseThanBest ==
    coll.phase = "returned" =>
        LET returned == Len(detect_collisions(coll.route_results))
        IN  /\ returned <= Len(coll.detected)
            /\ \A n \in 1..Len(coll.observed) : returned <= coll.observed[n]
            /\ coll.observed[Len(coll.observed)] > coll.best_count =>
                /\ coll.abandoned
                /\ \A i \in 1..Len(coll.route_results) :
                    /\ coll.route_results[i].route = coll.best_state[i].route
                    /\ coll.route_results[i].total_time_minutes
                          = coll.best_state[i].total_time_minutes

\* C17 witness: the resolver has returned after rounds of delays; the second
\* round started from fewer conflicts than the given routes had, the routes
\* after the loop had more, and the routes returned are those of that best
\* state, which are not the given ones.
C17_Witness ==
    /\ coll.phase = "returned"
    /\ coll.abandoned
    /\ coll.best_count < coll.observed[1]
    /\ coll.observed[Len(coll.observed)] > coll.best_count
    /\ coll.route_results # coll.input
    /\ \A i \in 1..Len(coll.route_results) :
        coll.route_results[i].route = coll.best_state[i].route

\* the sampled times at which the two agents of the given routes are both at
\* one location other than the entry
TimesTogether ==
    {t \in InputTimes :
        /\ Together(1, 2, t)
        /\ InputState(1, t)[1] # entry_of(coll.input)}

\* the given routes hold two agents that meet at one sampled time only, at
\* the shelf (4,4), neither of them picking
MeetOnceAtShelf ==
    /\ Len(coll.input) = 2
    /\ Cardinality(TimesTogether) = 1
    /\ \A t \in TimesTogether :
        /\ InputState(1, t)[1] = Shelf
        /\ ~InputState(1, t)[2]
        /\ ~InputState(2, t)[2]

\* C18: when two agents meet once at (4,4), neither picking, the detector
\* reports exactly one vertex conflict, and the routes the resolver returns
\* have no conflict, or else the resolution was abandoned and the routes are
\* those of the best state with its count of conflicts.
C18_ResolvedOrAbandoned ==
    (coll.phase # "off" /\ MeetOnceAtShelf) =>
        /\ coll.phase # "input" =>
            Len(SelectSeq(coll.detected, LAMBDA c : c.type = "vertex")) = 1
        /\ coll.phase = "returned" =>
            LET returned == Len(detect_collisions(coll.route_results))
            IN  \/ returned = 0
                \/ /\ coll.abandoned
                   /\ returned = coll.best_count
                   /\ \A i \in 1..Len(coll.route_results) :
                        coll.route_results[i].route = coll.best_state[i].route

\* the priority of an agent's kind in a conflict: human > cart > robot
KindPriority(agent_id) ==
    CASE Agents[agent_id].type = "human" -> 3
      [] Agents[agent_id].type = "cart" -> 2
      [] Agents[agent_id].type = "robot" -> 1
      [] OTHER -> 0

\* C19: the agent delayed in a round of resolve_with_delays is, of the two
\* agents of the chosen vertex conflict, the one whose kind has the lower
\* priority (human > cart > robot), whatever the order of the routes.
C19_LowerKindDelayed ==
    coll.phase # "off" =>
        \A r \in Range(coll.last_round) :
            /\ r.agent \in Range(r.conflict.agents)
            /\ \A other \in Range(r.conflict.agents) \ {r.agent} :
                KindPriority(r.agent) < KindPriority(other)

\* C20: resolve_with_delays returns after at most 50 delay rounds; a round
\* whose recomputed conflicts hold no vertex conflict changes no route and
\* ends the loop; routes whose conflicts are edge conflicts only, or that
\* have none, are returned as they were given; the call is always at a
\* statement whose condition to go on holds, and the number of its
\* detect_collisions calls is bounded by the rounds, so that it returns.
C20_BoundedRounds ==
    /\ [](coll.phase # "off" =>
            /\ coll.iteration <= 50
            /\ coll.phase \in {"input", "detected", "loop", "final", "returned"}
            /\ coll.phase = "loop" => coll.iteration < 50
            /\ Len(coll.observed) <= coll.iteration + 3
            /\ (coll.phase = "returned" /\ coll.iteration < 50) =>
                    \A c \in Range(coll.conflicts) : c.type # "vertex"
            /\ (/\ coll.phase = "returned"
                /\ \A c \in Range(coll.detected) : c.type # "vertex") =>
                    /\ coll.iteration = 0
                    /\ coll.route_results = coll.input)
    /\ [][(/\ coll.phase = "loop"
           /\ \A c \in Range(coll'.conflicts) : c.type # "vertex") =>
                /\ coll'.route_results = coll.route_results
                /\ coll'.iteration = coll.iteration
                /\ coll'.phase = "final"]_vars

\* C20 witness: the resolver has returned routes that have an edge conflict
\* and no vertex conflict, after no delay round.
C20_Witness ==
    /\ coll.phase = "returned"
    /\ coll.detected # <<>>
    /\ \A c \in Range(coll.detected) : c.type = "edge"
    /\ coll.observed = <<Len(coll.detected), Len(coll.detected), Len(coll.detected)>>
    /\ coll.route_results = coll.input

\* C21: a delay round changes only the delayed agent's timestamps: its steps
\* that arrive at the conflict time or later have arrival and departure
\* 10 s later, its earlier steps are as they were, its total_time_minutes is
\* its last departure in minutes, rounded to hundredths; no other agent's
\* record, no location, picking flag, product payload, number or order of
\* steps changes. A step of the detector that is no delay round and not the
\* return changes no route.
C21_DelayFrame ==
    [][coll.phase # "off" =>
        /\ (coll'.iteration = coll.iteration /\ coll'.phase # "returned") =>
                coll'.route_results = coll.route_results
        /\ coll'.iteration # coll.iteration =>
            LET delayed == coll'.last_round[1].agent
                conflict_time == coll'.last_round[1].conflict.time
            IN  /\ Len(coll'.route_results) = Len(coll.route_results)
                /\ \A i \in 1..Len(coll.route_results) :
                    LET before == coll.route_results[i]
                        after == coll'.route_results[i]
                    IN  IF before.agent_id # delayed THEN after = before
                        ELSE
                        /\ after.agent_id = before.agent_id
                        /\ after.agent_type = before.agent_type
                        /\ Len(after.route) = Len(before.route)
                        /\ \A s \in 1..Len(before.route) :
                            LET old == before.route[s]
                                new == after.route[s]
                                shift == IF old.arrival_time_seconds >= conflict_time
                                            THEN 10 ELSE 0
                            IN  /\ new.location = old.location
                                /\ new.is_picking = old.is_picking
                                /\ new.products = old.products
                                /\ new.arrival_time_seconds
                                        = old.arrival_time_seconds + shift
                                /\ new.departure_time_seconds
                                        = old.departure_time_seconds + shift
                        /\ after.route # <<>> =>
                            LET last == after.route[Len(after.route)]
                                            .departure_time_seconds * 100
                                diff == after.total_time_minutes * 60 - last
                            IN  -30 <= diff /\ diff <= 30]_vars

\* C21 witness: after the first delay round on two routes, the delayed agent
\* has a step that was left alone and a picking step that was moved 10 s
\* later, and the other agent has steps.
C21_Witness ==
    /\ coll.phase = "loop"
    /\ coll.iteration = 1
    /\ Len(coll.route_results) = 2
    /\ \E i, j \in 1..2 :
        /\ i # j
        /\ coll.route_results[i].agent_id = coll.last_round[1].agent
        /\ coll.route_results[j].route # <<>>
        /\ coll.route_results[j] = coll.input[j]
        /\ \E s, u \in 1..Len(coll.input[i].route) :
            /\ coll.route_results[i].route[s] = coll.input[i].route[s]
            /\ coll.input[i].route[u].is_picking
            /\ coll.route_results[i].route[u].arrival_time_seconds
                    = coll.input[i].route[u].arrival_time_seconds + 10
        /\ coll.route_results[i].total_time_minutes
                # coll.input[i].total_time_minutes

\* agent a of the given routes moves from one location to another between t
\* and t + time_step while agent b moves the other way, neither of them
\* picking at t, and a does not start from the entry
SwapsWith(a, b, t) ==
    /\ InputState(a, t) # NoState /\ InputState(a, t + time_step) # NoState
    /\ InputState(b, t) # NoState /\ InputState(b, t + time_step) # NoState
    /\ ~InputState(a, t)[2] /\ ~InputState(b, t)[2]
    /\ InputState(a, t)[1] # InputState(a, t + time_step)[1]
    /\ InputState(a, t)[1] = InputState(b, t + time_step)[1]
    /\ InputState(b, t)[1] = InputState(a, t + time_step)[1]
    /\ InputState(a, t)[1] # entry_of(coll.input)

\* C22: when two agents of the given routes swap their locations between two
\* sampled times, neither picking, and the one called A does not start from
\* the entry, detect_collisions returns an edge conflict for the pair in the
\* window of that time, whichever of the two comes first in the list.
C22_SwapRecorded ==
    coll.phase = "detected" =>
        \A i, j \in 1..Len(coll.input) : \A t \in InputTimes :
            (/\ i < j
             /\ t + time_step \in InputTimes
             /\ SwapsWith(i, j, t) \/ SwapsWith(j, i, t)) =>
                \E c \in Range(coll.detected) :
                    /\ c.type = "edge"
                    /\ c.agents = <<coll.input[i].agent_id, coll.input[j].agent_id>>
                    /\ window_of(c.time) = window_of(t)
                    /\ c.time <= t

\* the raw detections of detect_collisions on the given routes, before the
\* de-duplication: (type, i, j, t) for every pair and sampled time at which
\* the vertex test or the edge test of the loops is true
RawDetections ==
    LET n == Len(coll.input)
        entry == entry_of(coll.input)
    IN  {<<"vertex", i, j, t>> : <<i, j, t>> \in
            {x \in (1..n) \X (1..n) \X InputTimes :
                /\ x[1] < x[2]
                /\ vertex_conflict_at(InputState(x[1], x[3]),
                                      InputState(x[2], x[3]), entry)}}
        \cup
        {<<"edge", i, j, t>> : <<i, j, t>> \in
            {x \in (1..n) \X (1..n) \X InputTimes :
                /\ x[1] < x[2]
                /\ x[3] + time_step \in InputTimes
                /\ edge_conflict_at(InputState(x[1], x[3]),
                                    InputState(x[1], x[3] + time_step),
                                    InputState(x[2], x[3]),
                                    InputState(x[2], x[3] + time_step), entry)}}

\* the key of a returned conflict: type, the two agents whatever their
\* order, and the 5-second window of its time
DedupKey(c) == <<c.type, Range(c.agents), c.time \div 5>>

\* the key of a raw detection
RawKey(d) ==
    <<d[1], {coll.input[d[2]].agent_id, coll.input[d[3]].agent_id}, d[4] \div 5>>

\* C23: the list detect_collisions returns holds no two conflicts with one
\* key (type, unordered pair of agents, floor(time / 5)); every conflict of
\* it is a raw detection and the earliest one of its key; every raw
\* detection has a returned conflict with its key.
C23_Deduplicated ==
    coll.phase = "detected" =>
        /\ \A p, q \in 1..Len(coll.detected) :
            p # q => DedupKey(coll.detected[p]) # DedupKey(coll.detected[q])
        /\ \A c \in Range(coll.detected) :
            /\ \E d \in RawDetections :
                /\ RawKey(d) = DedupKey(c)
                /\ d[4] = c.time
                /\ c.agents = <<coll.input[d[2]].agent_id, coll.input[d[3]].agent_id>>
            /\ \A d \in RawDetections :
                RawKey(d) = DedupKey(c) => c.time <= d[4]
        /\ \A d \in RawDetections :
            \E c \in Range(coll.detected) : DedupKey(c) = RawKey(d)

\* C23 witness: detect_collisions has returned fewer conflicts than it
\* detected, and two vertex conflicts of one pair in two windows.
C23_Witness ==
    /\ coll.phase = "detected"
    /\ Len(coll.detected) < Cardinality(RawDetections)
    /\ \E p, q \in 1..Len(coll.detected) :
        /\ p < q
        /\ coll.detected[p].type = "vertex" /\ coll.detected[q].type = "vertex"
        /\ coll.detected[p].agents = coll.detected[q].agents
        /\ coll.detected[p].time < coll.detected[q].time
    /\ \E d \in RawDetections :
        /\ d[1] = "vertex"
        /\ \A c \in Range(coll.detected) : c.type = "vertex" => c.time # d[4]

ReportedFor(a) ==
    SelectSeq(caller.result.successful, LAMBDA s : s.agent_id = a)

\* C25: after PriorityAllocation.allocate, the orders its 'successful' list
\* gives to one agent, express and standard together, weigh no more than the
\* agent's capacity_weight and take no more than its capacity_volume.
C25_PriorityWithinCapacity ==
    (caller.kind = "priority" /\ caller.step = "returned") =>
        \A a \in AgentIds :
            LET mine == ReportedFor(a)
            IN  /\ SeqSum([i \in 1..Len(mine) |-> total_weight(mine[i].order_id)])
                        <= Agents[a].capacity_weight
                /\ SeqSum([i \in 1..Len(mine) |-> total_volume(mine[i].order_id)])
                        <= Agents[a].capacity_volume

\* C26: after an allocation pass, and after PriorityAllocation.allocate,
\* order.assigned_agent is agent a exactly when the order is in
\* a.assigned_orders, and an order the pass recorded as failed has no
\* assigned agent.
C26_BackReference ==
    (caller.kind # "off" /\ pc = "done") =>
        /\ \A o \in Range(caller.orders) : \A a \in Range(agents) :
            assigned_agent[o] = a <=> o \in Range(assigned_orders[a])
        /\ \A f \in Range(result.failed) : assigned_agent[f.order_id] = None

\* C27: when allocate has assigned every order it was given,
\* validate_solution on the agents as it left them returns valid, with no
\* error.
C27_ValidatorAccepts ==
    (/\ caller.kind = "validate"
     /\ caller.step = "validated"
     /\ result.failed_orders = 0) =>
        /\ caller.validation.valid
        /\ caller.validation.errors = <<>>

\* ------------------------------------ more claims on the detector
\* C28: every edge conflict detect_collisions returns on the given routes is
\* a swap: at its time the two agents are at two different locations, and
\* one time_step later each is where the other was.
C28_EdgeIsSwap ==
    coll.phase = "detected" =>
        \A c \in Range(coll.detected) :
            c.type = "edge" =>
                \E i, j \in 1..Len(coll.input) :
                    /\ c.agents = <<coll.input[i].agent_id, coll.input[j].agent_id>>
                    /\ InputState(i, c.time) # NoState
                    /\ InputState(j, c.time) # NoState
                    /\ InputState(i, c.time + time_step) # NoState
                    /\ InputState(j, c.time + time_step) # NoState
                    /\ InputState(i, c.time)[1] # InputState(j, c.time)[1]
                    /\ InputState(i, c.time + time_step)[1] = InputState(j, c.time)[1]
                    /\ InputState(j, c.time + time_step)[1] = InputState(i, c.time)[1]

\* C29: a delay round removes the delayed agent from the conflict it was
\* delayed for: on the routes after the round, the delayed agent is not at
\* the conflict's location at the conflict's time, and the next round does
\* not select the same conflict.
C29_DelayMakesProgress ==
    [][(coll.phase = "loop" /\ coll'.iteration # coll.iteration) =>
        LET conflict == coll'.last_round[1].conflict
            delayed == coll'.last_round[1].agent
            after == CHOOSE r \in Range(coll'.route_results) : r.agent_id = delayed
            timeline == _build_timeline(after)
            state == _state_at(timeline, _finish_time(timeline), conflict.time)
            again == SelectSeq(detect_collisions(coll'.route_results),
                               LAMBDA c : c.type = "vertex")
        IN  /\ state = NoState \/ state[1] # conflict.location
            /\ again = <<>> \/ again[1] # conflict]_vars

\* the steps of a route are in time order: arrival <= departure at every
\* step and the departure of a step <= the arrival of the next
WellFormed(route) ==
    /\ \A s \in 1..Len(route) :
        route[s].arrival_time_seconds <= route[s].departure_time_seconds
    /\ \A s \in 1..(Len(route) - 1) :
        route[s].departure_time_seconds <= route[s + 1].arrival_time_seconds

\* C30: when every given route is in time order, every route is in time
\* order in every state of resolve_with_delays and on return, rollback
\* included; the time spent at a step is what it was on input and no
\* timestamp is below its input value. The saved best state has the same
\* properties.
C30_TimelinesWellFormed ==
    (/\ coll.phase \in {"loop", "final", "returned"}
     /\ \A i \in 1..Len(coll.input) : WellFormed(coll.input[i].route)) =>
        /\ Len(coll.route_results) = Len(coll.input)
        /\ Len(coll.best_state) = Len(coll.input)
        /\ \A i \in 1..Len(coll.input) :
            \A route \in {coll.route_results[i].route, coll.best_state[i].route} :
                /\ WellFormed(route)
                /\ Len(route) = Len(coll.input[i].route)
                /\ \A s \in 1..Len(route) :
                    LET old == coll.input[i].route[s]
                    IN  /\ route[s].departure_time_seconds - route[s].arrival_time_seconds
                            = old.departure_time_seconds - old.arrival_time_seconds
                        /\ route[s].arrival_time_seconds >= old.arrival_time_seconds
                        /\ route[s].departure_time_seconds >= old.departure_time_seconds

\* C30 witness: the resolver has rolled back to a best state saved in the
\* middle of the run, in which a picking step of a route with three steps or
\* more stands later than on input and a step before it stands where it was.
C30_Witness ==
    /\ coll.phase = "returned"
    /\ coll.abandoned
    /\ \E i \in 1..Len(coll.input) :
        /\ Len(coll.input[i].route) >= 3
        /\ coll.route_results[i].route = coll.best_state[i].route
        /\ \E s, u \in 1..Len(coll.input[i].route) :
            /\ s < u
            /\ coll.route_results[i].route[s] = coll.input[i].route[s]
            /\ coll.input[i].route[u].departure_time_seconds
                    > coll.input[i].route[u].arrival_time_seconds
            /\ coll.route_results[i].route[u].arrival_time_seconds
                    > coll.input[i].route[u].arrival_time_seconds

====
